---------------------------- MODULE Spec2Model ----------------------------
(***************************************************************************)
(* VietForeign: the upload / transcript / translate / voice-conversion     *)
(* pipeline of backend/routers, its two in-memory stores (backend/utils)   *)
(* and the cleanup sweep of backend/main.                                  *)
(*                                                                         *)
(* Every handler is cut at the points where its coroutine really yields    *)
(* to the event loop (the run_in_executor awaits); the code between two    *)
(* such points is one atomic action.  Work done on an executor thread is   *)
(* an action of its own, because it reads the disk at its own moment.      *)
(***************************************************************************)
EXTENDS Integers, Sequences, FiniteSets, TLC

(* ------------------------------ bounds -------------------------------- *)
\* operations (requests, sweeps) started in one behaviour
MaxRequests == 4
\* coroutines suspended at an executor await at the same time
MaxInflight == 2
\* executor threads that call a service accessor at the same time
MaxThreads == 2

(* ------------------------- program constants -------------------------- *)
\* utils.py:142  len(transcript.strip()) < 10
MinLen == 10

(* ------------------------------ texts --------------------------------- *)
\* Python None, kept apart from the empty string
None == <<"None">>

Rep(c, n) == [i \in 1..n |-> c]

\* str.strip(): drop leading and trailing blanks
RECURSIVE LStrip(_)
LStrip(s) == IF s # <<>> /\ Head(s) = " " THEN LStrip(Tail(s)) ELSE s

RECURSIVE RStrip(_)
RStrip(s) ==
    IF s # <<>> /\ s[Len(s)] = " " THEN RStrip(SubSeq(s, 1, Len(s) - 1)) ELSE s

Strip(s) == RStrip(LStrip(s))

\* Python truthiness of an optional string
Truthy(v) == v # None /\ v # <<>>

\* dict.get(k, default)
Get(d, k, default) == IF k \in DOMAIN d THEN d[k] ELSE default

\* d[k] = v
Put(d, k, v) == [x \in (DOMAIN d) \cup {k} |-> IF x = k THEN v ELSE d[x]]

\* {}
EmptyDict == [x \in {} |-> None]

(* --------------------------- Language Guard --------------------------- *)
\* fast_langdetect.detect, an opaque classifier: a fixed function of the
\* text (here of its first letter); "raise" stands for the call throwing.
Detect(t) ==
    CASE Head(t) = "v" -> "VI"
      [] Head(t) = "w" -> "VIE"
      [] Head(t) = "l" -> "vi"
      [] Head(t) = "e" -> "EN"
      [] OTHER -> "raise"

\* is_vietnamese_transcript measuring the text as given, not stripped
is_vietnamese_transcript_UntrimmedLength(transcript) ==
    IF transcript = <<>> \/ Len(transcript) < MinLen
    THEN <<FALSE, "text_too_short">>
    ELSE LET detected_lang == Detect(Strip(transcript))
         IN  IF detected_lang = "raise"
             THEN <<FALSE, "detection_failed">>
             ELSE <<detected_lang \in {"VI", "VIE"}, detected_lang>>

\* utils.is_vietnamese_transcript: <<is_vietnamese, detected_lang>>
is_vietnamese_transcript(transcript) ==
    IF transcript = <<>> \/ Len(Strip(transcript)) < MinLen
    THEN <<FALSE, "text_too_short">>
    ELSE LET detected_lang == Detect(Strip(transcript))
         IN  IF detected_lang = "raise"
             THEN <<FALSE, "detection_failed">>
             ELSE <<detected_lang \in {"VI", "VIE"}, detected_lang>>

\* the arguments of the calls of detect that is_vietnamese_transcript makes
detect_calls(transcript) ==
    IF transcript = <<>> \/ Len(Strip(transcript)) < MinLen
    THEN <<>>
    ELSE << Strip(transcript) >>

\* str.upper() on the codes the guard can return
Upper(code) ==
    CASE code = "text_too_short" -> "TEXT_TOO_SHORT"
      [] code = "detection_failed" -> "DETECTION_FAILED"
      [] code = "vi" -> "VI"
      [] OTHER -> code

(* ------------------------------ inputs -------------------------------- *)
\* texts a caller can put in an update-transcript request
UpdateTexts ==
    { <<" ", " ">>,
      <<" ">> \o Rep("v", MinLen - 1) \o <<" ">>,
      <<" ">> \o Rep("v", MinLen) \o <<" ">>,
      Rep("e", MinLen),
      Rep("x", MinLen) }

\* what the ASR model can decode (already stripped, transcript_service:177)
AsrTexts == { <<>>, Rep("v", MinLen), Rep("e", MinLen) }

\* target_language values of translate and voice-conversion requests
TargetLangs == { "fr", "de" }

\* optional free text of a voice-conversion request
CallerTexts == { None, <<>>, <<"h", "i">> }

\* uploaded file names and bodies
Filenames == { <<"a", ".", "w", "a", "v">>, <<"a", ".", "t", "x", "t">> }

Contents == { <<>>, <<1>> }


(* --------------------------- file names ------------------------------- *)
\* str.lower() on the letters upload names are written with
LowerChar(c) ==
    CASE c = "A" -> "a" [] c = "M" -> "m" [] c = "P" -> "p" [] c = "W" -> "w"
      [] c = "V" -> "v" [] c = "E" -> "e" [] c = "N" -> "n" [] c = "F" -> "f"
      [] c = "R" -> "r" [] c = "J" -> "j" [] OTHER -> c

Lower(s) == [i \in 1..Len(s) |-> LowerChar(s[i])]

\* str.endswith
EndsWith(s, suf) ==
    Len(s) >= Len(suf) /\ SubSeq(s, Len(s) - Len(suf) + 1, Len(s)) = suf

\* utils.check_audio_format: supported_formats
supported_formats ==
    { <<".", "w", "a", "v">>, <<".", "m", "p", "3">>, <<".", "m", "4", "a">>,
      <<".", "f", "l", "a", "c">>, <<".", "o", "g", "g">>,
      <<".", "a", "a", "c">>, <<".", "w", "e", "b", "m">> }

\* check_audio_format looking for the extension anywhere in the name
check_audio_format_Anywhere(filename) ==
    \E fmt \in supported_formats :
        \E i \in 1..Len(filename) :
            Len(filename) - i + 1 >= Len(fmt)
            /\ SubSeq(Lower(filename), i, i + Len(fmt) - 1) = fmt

\* utils.check_audio_format: TRUE when the name passes (no exception)
check_audio_format(filename) ==
    \E fmt \in supported_formats : EndsWith(Lower(filename), fmt)

\* pathlib.Path(name).suffix: from the last dot, if it is not the first char
PathSuffix(name) ==
    LET dots == { i \in 2..Len(name) : name[i] = "." }
    IN  IF dots = {} THEN <<>>
        ELSE LET i == CHOOSE j \in dots : \A k \in dots : k <= j
             IN  SubSeq(name, i, Len(name))

(* ------------------------------- state -------------------------------- *)
VARIABLES
    audio_storage,       \* utils.audio_storage: id -> Artifact entry
    transcript_storage,  \* utils.transcript_storage: id -> Session dict
    disk,                \* files that exist: path -> bytes
    storage_import,      \* what "from backend.utils import" gives main.py
    reqs,                \* coroutines suspended at an executor await
    nreq,                \* operations started so far
    next_id,             \* ids handed out so far (uuid4 never repeats)
    nconv,               \* output file names drawn so far (uuid4 hex)
    transcript_service,  \* transcript_service.transcript_service: its flags
    guard_call,          \* one call of the Language Guard: text and result
    lang_call,           \* one call of the language-code normalization
    singleton,           \* the accessors' module globals: service -> instance
    constructed,         \* constructor runs so far: service -> count
    threads              \* executor threads inside an accessor

\* the pipeline: stores, disk, requests
pipeline == << audio_storage, transcript_storage, disk, storage_import, reqs,
               nreq, next_id, nconv >>

\* the parts that are studied on their own
components == << guard_call, lang_call, singleton, constructed, threads >>

vars == << audio_storage, transcript_storage, disk, storage_import, reqs,
           nreq, next_id, nconv, transcript_service, guard_call, lang_call,
           singleton, constructed, threads >>

\* ids a request can name: every id handed out, and 0, which never is
KnownIds == 0..(next_id - 1)

\* result slot of an executor job that has not run yet
NoRes == [status |-> "pending", raw |-> None, corrected |-> None,
          path |-> <<>>, error |-> "", steps |-> {}]

\* the frame of a request that starts now: its arguments and locals; and,
\* for as long as nothing else runs beside it (solo), the two stores as it
\* found them
Req(kind, id, lang) ==
    [rid |-> nreq + 1, kind |-> kind, id |-> id, lang |-> lang,
     pc |-> "start", src |-> None, path |-> <<>>, res |-> NoRes,
     solo |-> (reqs = {}),
     ts0 |-> IF reqs = {} THEN transcript_storage ELSE EmptyDict,
     as0 |-> IF reqs = {} THEN audio_storage ELSE EmptyDict,
     called |-> FALSE]

\* fields of a response body that a handler does not set
NoBody == [raw |-> None, corrected |-> None, state |-> "", text |-> None,
           path |-> <<>>, url |-> <<>>, id |-> 0]

\* what a handler segment does: the response it sends (status 0: none yet,
\* the handler goes on), the Session Store as it leaves it, its locals
Outcome(status, detail, det, body, ts) ==
    [status |-> status, detail |-> detail, det |-> det, body |-> body,
     ts |-> ts, src |-> None, path |-> <<>>]

\* another operation ran while these were suspended
Disturb(rs) ==
    { [r EXCEPT !.solo = FALSE, !.ts0 = EmptyDict, !.as0 = EmptyDict] :
      r \in rs }

\* transcript_service.py:276-280 builds the TranscriptService when the
\* module is imported; TranscriptService._load_models sets the two flags
TranscriptServices ==
    [asr_loaded : BOOLEAN, correction_loaded : BOOLEAN]

\* the process after start-up: empty stores, no request yet
Started ==
    /\ audio_storage = EmptyDict
    /\ transcript_storage = EmptyDict
    /\ disk = EmptyDict
    /\ storage_import \in { "shared", "unavailable" }
    /\ reqs = {}
    /\ nreq = 0
    /\ next_id = 1
    /\ nconv = 0
    /\ transcript_service \in TranscriptServices

\* the accessors' services
Services == { "transcript", "translation", "voice" }

\* executor threads that may call an accessor at the same time
Threads == 1..MaxThreads

\* no Language Guard call, no accessor call under study
ComponentsIdle ==
    /\ guard_call = [text |-> <<>>, asked |-> <<>>, result |-> <<>>,
                     done |-> FALSE]
    /\ lang_call = [language |-> <<>>, result |-> "", done |-> FALSE]
    /\ singleton = [s \in Services |-> 0]
    /\ constructed = [s \in Services |-> 0]
    /\ threads = [t \in Threads |->
                    [pc |-> "idle", service |-> "", made |-> 0, got |-> 0]]

Init == Started /\ ComponentsIdle

\* an operation that runs to its response without yielding
Atomic ==
    /\ nreq < MaxRequests
    /\ reqs' = Disturb(reqs)
    /\ nreq' = nreq + 1

\* a handler that suspends at an executor await
Suspend(r) ==
    /\ nreq < MaxRequests
    /\ Cardinality(reqs) < MaxInflight
    /\ reqs' = Disturb(reqs) \cup {r}
    /\ nreq' = nreq + 1

\* the executor thread of r finishes its job
Worker(r, pc, res, called) ==
    reqs' = (reqs \ {r}) \cup
                { [r EXCEPT !.pc = pc, !.res = res, !.called = called] }

\* a suspended handler resumes and answers
Finish(r) == reqs' = Disturb(reqs \ {r})

(* ------------------------------ upload -------------------------------- *)
\* routers/audios.upload_audio: the response for a file name and body;
\* written: utils.save_audio_in_memory_and_disk could write the file
upload_response(filename, contents, written) ==
    IF ~check_audio_format(filename) THEN 415
    ELSE IF Len(contents) = 0
    THEN 500    \* the HTTPException(400) is caught by "except Exception"
    ELSE IF ~written THEN 500
    ELSE 200

\* save_audio_in_memory_and_disk storing every upload under one id
save_audio_in_memory_and_disk_SameId(filename, contents) ==
    LET audio_id == 1
        temp_file_path == << "audio_uploads", audio_id, PathSuffix(filename) >>
    IN  [id |-> audio_id,
         disk |-> Put(disk, temp_file_path, contents),
         as |-> Put(audio_storage, audio_id,
                    [id |-> audio_id, filename |-> filename,
                     content |-> contents, file_path |-> temp_file_path])]

\* save_audio_in_memory_and_disk keeping the bytes in memory only
save_audio_in_memory_and_disk_NoWrite(filename, contents) ==
    LET audio_id == next_id
        temp_file_path == << "audio_uploads", audio_id, PathSuffix(filename) >>
    IN  [id |-> audio_id,
         disk |-> disk,
         as |-> Put(audio_storage, audio_id,
                    [id |-> audio_id, filename |-> filename,
                     content |-> contents, file_path |-> temp_file_path])]

\* utils.save_audio_in_memory_and_disk: the id it returns, the Artifact
\* Store and the disk as it leaves them
save_audio_in_memory_and_disk(filename, contents) ==
    LET audio_id == next_id
        temp_file_path == << "audio_uploads", audio_id, PathSuffix(filename) >>
    IN  [id |-> audio_id,
         disk |-> Put(disk, temp_file_path, contents),
         as |-> Put(audio_storage, audio_id,
                    [id |-> audio_id, filename |-> filename,
                     content |-> contents, file_path |-> temp_file_path])]

\* routers/audios.upload_audio: its response (id 0: none) and what it
\* leaves behind
upload_audio_run(filename, contents, written) ==
    LET status == upload_response(filename, contents, written)
        saved == save_audio_in_memory_and_disk(filename, contents)
    IN  IF status = 200
        THEN [status |-> 200, id |-> saved.id, as |-> saved.as,
              disk |-> saved.disk]
        ELSE [status |-> status, id |-> 0, as |-> audio_storage,
              disk |-> disk]

upload_audio(filename, contents, written) ==
    LET o == upload_audio_run(filename, contents, written)
    IN  /\ nreq < MaxRequests
        /\ audio_storage' = o.as
        /\ disk' = o.disk
        /\ next_id' = IF o.status = 200 THEN next_id + 1 ELSE next_id
        /\ UNCHANGED << transcript_storage, storage_import, nconv >>
        /\ IF o.status = 200 THEN Atomic ELSE UNCHANGED << reqs, nreq >>

(* -------------------------- Artifact lookup --------------------------- *)
\* get_audio_file without the check that the file is still on disk
get_audio_file_NoDiskCheck(audio_id) ==
    IF audio_id \notin DOMAIN audio_storage
    THEN [ok |-> FALSE, path |-> <<>>, error |-> "FileNotFoundError"]
    ELSE [ok |-> TRUE, path |-> audio_storage[audio_id].file_path,
          error |-> ""]

\* utils.get_audio_file: the path, or the exception it raises
get_audio_file(audio_id) ==
    IF audio_id \notin DOMAIN audio_storage
    THEN [ok |-> FALSE, path |-> <<>>, error |-> "FileNotFoundError"]
    ELSE LET file_path == audio_storage[audio_id].file_path
         IN  IF file_path \notin DOMAIN disk
             THEN [ok |-> FALSE, path |-> <<>>, error |-> "FileNotFoundError"]
             ELSE [ok |-> TRUE, path |-> file_path, error |-> ""]

(* --------------------------- get-transcript --------------------------- *)
\* routers/transcript.get_transcript, up to "await process_audio_sync"
get_transcript_begin(id) ==
    LET ts == transcript_storage
    IN  IF id \in DOMAIN transcript_storage
        THEN LET stored == transcript_storage[id]
                 corrected_transcript ==
                     Get(stored, "corrected_transcript", <<>>)
                 guard == is_vietnamese_transcript(corrected_transcript)
             IN  IF Truthy(corrected_transcript) /\ ~guard[1]
                 THEN Outcome(400, "Transcript is not in Vietnamese",
                              Upper(guard[2]), NoBody, ts)
                 ELSE Outcome(200, "Transcript retrieved successfully", "",
                              [NoBody EXCEPT
                                 !.id = id,
                                 !.raw = Get(stored, "raw_transcript", None),
                                 !.corrected = corrected_transcript,
                                 !.state = Get(stored, "status", "completed")],
                              ts)
        ELSE IF id \notin DOMAIN audio_storage
        THEN Outcome(404, "Audio not found", "", NoBody, ts)
        ELSE LET found == get_audio_file(id)
             IN  IF ~found.ok
                 THEN \* FileNotFoundError reaches "except Exception"
                      Outcome(500, found.error, "", NoBody, ts)
                 ELSE [Outcome(0, "", "", NoBody, ts) EXCEPT
                         !.path = found.path]

get_transcript(id) ==
    LET o == get_transcript_begin(id)
    IN  /\ nreq < MaxRequests
        /\ transcript_storage' = o.ts
        /\ UNCHANGED << audio_storage, disk, storage_import, next_id, nconv >>
        /\ IF o.status = 0
           THEN Suspend([Req("get_transcript", id, "") EXCEPT
                           !.pc = "asr", !.path = o.path])
           ELSE UNCHANGED << reqs, nreq >>

\* TranscriptService.correct_text's model call, an opaque capability: a
\* fixed function of the text (one text it answers with blanks only)
Corrector(raw_text) ==
    IF Head(raw_text) = "e" THEN <<" ">> ELSE raw_text \o <<"c", " ">>

\* correct_text giving up with an empty text when the model call raises
correct_text_EmptyOnFailure(raw_text, throws) ==
    IF Strip(raw_text) = <<>>
    THEN [text |-> <<>>, called |-> FALSE]
    ELSE IF ~transcript_service.correction_loaded
    THEN [text |-> raw_text, called |-> FALSE]
    ELSE IF throws
    THEN [text |-> <<>>, called |-> TRUE]
    ELSE [text |-> Strip(Corrector(raw_text)), called |-> TRUE]

\* TranscriptService.correct_text: the text it returns, and whether it
\* called the correction model (throws: that call raises)
correct_text(raw_text, throws) ==
    IF Strip(raw_text) = <<>>
    THEN [text |-> <<>>, called |-> FALSE]
    ELSE IF ~transcript_service.correction_loaded
    THEN [text |-> raw_text, called |-> FALSE]
    ELSE IF throws
    THEN [text |-> raw_text, called |-> TRUE]
    ELSE [text |-> Strip(Corrector(raw_text)), called |-> TRUE]

\* TranscriptService.transcribe: what a call can do.  ok: it returned text;
\* steps: the work it attempted ("convert": pydub to WAV, "asr": Whisper)
transcribe(audio_path) ==
    LET suffix == Lower(audio_path[3])
        pre == IF suffix # <<".", "w", "a", "v">> THEN {"convert"} ELSE {}
        failed(steps) == [ok |-> FALSE, text |-> <<>>, steps |-> steps]
    IN  IF ~transcript_service.asr_loaded
        THEN { failed({}) }                  \* RuntimeError, line 129
        ELSE { failed(pre) }                 \* conversion or validation fails
             \cup
             ( IF audio_path \in DOMAIN disk /\ disk[audio_path] # <<>>
               THEN { failed(pre \cup {"asr"}) }
                    \cup { [ok |-> TRUE, text |-> t, steps |-> pre \cup {"asr"}] :
                           t \in AsrTexts }
               ELSE {} )

\* TranscriptService.process_audio: the results it can return for a file
process_audio(audio_path) ==
    IF ~transcript_service.asr_loaded
    THEN { [NoRes EXCEPT !.status = "error", !.raw = <<>>, !.corrected = <<>>,
                         !.error = "ASR model not loaded - cannot process audio"] }
    ELSE UNION {
           IF ~tr.ok
           THEN { [NoRes EXCEPT !.status = "error", !.raw = <<>>,
                                !.corrected = <<>>, !.steps = tr.steps,
                                !.error = "Transcription failed"] }
           ELSE { LET c == correct_text(tr.text, throws)
                  IN  [NoRes EXCEPT
                         !.status = "success", !.raw = tr.text,
                         !.corrected = c.text,
                         !.steps = tr.steps \cup
                                   (IF c.called THEN {"correct"} ELSE {})] :
                  throws \in BOOLEAN }
           : tr \in transcribe(audio_path) }

\* routers/transcript.process_audio_sync on an executor thread, on the file
\* as it is when the thread reads it
process_audio_sync(r) ==
    /\ r \in reqs
    /\ r.kind = "get_transcript"
    /\ r.pc = "asr"
    /\ \E res \in process_audio(r.path)
               \cup { \* get_transcript_service() raised
                      [NoRes EXCEPT !.status = "error",
                                    !.error = "service unavailable"] } :
         Worker(r, "asr_done", res, res.steps # {})
    /\ UNCHANGED << audio_storage, transcript_storage, disk, storage_import,
                    nreq, next_id, nconv >>

\* get_transcript storing the result before looking at its status
get_transcript_end_StoreFirst(r) ==
    LET result == r.res
        id == r.id
        stored == Put(transcript_storage, id,
                      [raw_transcript |-> result.raw,
                       corrected_transcript |-> result.corrected,
                       status |-> "completed"])
    IN  IF result.status = "language_error"
        THEN Outcome(400, result.error, "", NoBody, stored)
        ELSE IF result.status = "error"
        THEN Outcome(500, result.error, "", NoBody, stored)
        ELSE Outcome(200, "Transcript generated successfully", "",
                     [NoBody EXCEPT !.id = id, !.raw = result.raw,
                                    !.corrected = result.corrected,
                                    !.state = "completed"],
                     stored)

\* routers/transcript.get_transcript, after "await process_audio_sync"
get_transcript_end(r) ==
    LET result == r.res
        id == r.id
        ts == transcript_storage
    IN  IF result.status = "language_error"
        THEN Outcome(400, result.error, "", NoBody, ts)
        ELSE IF result.status = "error"
        THEN Outcome(500, result.error, "", NoBody, ts)
        ELSE Outcome(200, "Transcript generated successfully", "",
                     [NoBody EXCEPT !.id = id, !.raw = result.raw,
                                    !.corrected = result.corrected,
                                    !.state = "completed"],
                     Put(ts, id, [raw_transcript |-> result.raw,
                                  corrected_transcript |-> result.corrected,
                                  status |-> "completed"]))

get_transcript_resume(r) ==
    /\ r \in reqs
    /\ r.kind = "get_transcript"
    /\ r.pc = "asr_done"
    /\ transcript_storage' = get_transcript_end(r).ts
    /\ Finish(r)
    /\ UNCHANGED << audio_storage, disk, storage_import, nreq, next_id, nconv >>

(* -------------------------- update-transcript ------------------------- *)
\* update_transcript with the Session entry created before the text is
\* validated
update_transcript_run_CreateFirst(id, transcript) ==
    LET ts == IF id \in DOMAIN transcript_storage \/ id \notin DOMAIN audio_storage
              THEN transcript_storage
              ELSE Put(transcript_storage, id, EmptyDict)
        new_transcript == Strip(transcript)
        guard == is_vietnamese_transcript(new_transcript)
        after == Put(Put(ts[id], "corrected_transcript", new_transcript),
                     "status", "updated")
    IN  IF id \notin DOMAIN audio_storage
        THEN Outcome(404, "Audio not found", "", NoBody, ts)
        ELSE IF new_transcript = <<>>
        THEN Outcome(400, "Transcript cannot be empty", "", NoBody, ts)
        ELSE IF ~guard[1]
        THEN Outcome(400, "Transcript is not in Vietnamese", Upper(guard[2]),
                     NoBody, ts)
        ELSE Outcome(200, "Transcript updated successfully", "",
                     [NoBody EXCEPT !.id = id,
                                    !.raw = Get(after, "raw_transcript", None),
                                    !.corrected = new_transcript,
                                    !.state = "updated"],
                     Put(ts, id, after))

\* update_transcript assigning a fresh dict instead of dict.update, and
\* storing the text as the caller sent it
update_transcript_run_Replace(id, transcript) ==
    LET ts == transcript_storage
        guard == is_vietnamese_transcript(Strip(transcript))
        after == [corrected_transcript |-> transcript, status |-> "updated"]
    IN  IF id \notin DOMAIN audio_storage
        THEN Outcome(404, "Audio not found", "", NoBody, ts)
        ELSE IF Strip(transcript) = <<>>
        THEN Outcome(400, "Transcript cannot be empty", "", NoBody, ts)
        ELSE IF ~guard[1]
        THEN Outcome(400, "Transcript is not in Vietnamese", Upper(guard[2]),
                     NoBody, ts)
        ELSE Outcome(200, "Transcript updated successfully", "",
                     [NoBody EXCEPT !.id = id, !.corrected = transcript,
                                    !.state = "updated"],
                     Put(ts, id, after))

\* routers/transcript.update_transcript (it never yields to the event loop)
update_transcript_run(id, transcript) ==
    LET ts == transcript_storage
        new_transcript == Strip(transcript)
        guard == is_vietnamese_transcript(new_transcript)
        before == IF id \in DOMAIN ts THEN ts[id] ELSE EmptyDict
        after == Put(Put(before, "corrected_transcript", new_transcript),
                     "status", "updated")
    IN  IF id \notin DOMAIN audio_storage
        THEN Outcome(404, "Audio not found", "", NoBody, ts)
        ELSE IF new_transcript = <<>>
        THEN Outcome(400, "Transcript cannot be empty", "", NoBody, ts)
        ELSE IF ~guard[1]
        THEN Outcome(400, "Transcript is not in Vietnamese", Upper(guard[2]),
                     NoBody, ts)
        ELSE Outcome(200, "Transcript updated successfully", "",
                     [NoBody EXCEPT
                        !.id = id,
                        !.raw = Get(after, "raw_transcript", None),
                        !.corrected = new_transcript,
                        !.state = "updated"],
                     Put(ts, id, after))

update_transcript(id, transcript) ==
    LET o == update_transcript_run(id, transcript)
    IN  /\ nreq < MaxRequests
        /\ transcript_storage' = o.ts
        /\ UNCHANGED << audio_storage, disk, storage_import, next_id, nconv >>
        /\ IF o.status = 200 THEN Atomic ELSE UNCHANGED << reqs, nreq >>

(* ------------------------------ translate ----------------------------- *)
\* TranslatorService.supported_languages
supported_languages == [en |-> "eng_Latn", ja |-> "jpn_Jpan", fr |-> "fra_Latn"]

\* the NLLB pipeline, an opaque capability: the text in the target language
Translator(text, tgt_lang) == <<tgt_lang>> \o text

\* TranslatorService.translate: the outcomes of one call
\* (called: the pipeline was invoked)
translate(text, target_lang) ==
    IF target_lang \notin DOMAIN supported_languages
    THEN { [status |-> "ValueError", text |-> None, called |-> FALSE] }
    ELSE { [status |-> "ok", called |-> TRUE,
            text |-> Translator(text, supported_languages[target_lang])],
           [status |-> "Exception", text |-> None, called |-> TRUE] }

\* conversion.translate_sync: get_translation_service() may raise first
translate_sync(vietnamese_text, target_lang) ==
    { [status |-> "Exception", text |-> None, called |-> FALSE] }
    \cup translate(vietnamese_text, target_lang)

\* the transcript read raw first
vietnamese_text_of_RawFirst(session) ==
    IF Truthy(Get(session, "raw_transcript", None))
    THEN session["raw_transcript"]
    ELSE Get(session, "corrected_transcript", <<>>)

\* the transcript translate-by-id reads: corrected, else raw
vietnamese_text_of(session) ==
    IF Truthy(Get(session, "corrected_transcript", None))
    THEN session["corrected_transcript"]
    ELSE Get(session, "raw_transcript", <<>>)

\* routers/conversion.translate_text_only, up to "await translate_in_thread"
translate_begin(id, target_language) ==
    LET ts == transcript_storage
    IN  IF id \notin DOMAIN transcript_storage
        THEN Outcome(404, "Transcript not found", "", NoBody, ts)
        ELSE LET vietnamese_text == vietnamese_text_of(transcript_storage[id])
             IN  IF ~Truthy(vietnamese_text)
                 THEN Outcome(400, "No transcript to translate", "", NoBody, ts)
                 ELSE [Outcome(0, "", "", NoBody, ts) EXCEPT
                         !.src = vietnamese_text]

\* translate_text_only calling translate_sync itself, on the event loop
translate_text_only_Inline(id, target_language) ==
    LET o == translate_begin(id, target_language)
    IN  /\ nreq < MaxRequests
        /\ transcript_storage' = o.ts
        /\ UNCHANGED << audio_storage, disk, storage_import, next_id, nconv >>
        /\ IF o.status = 0
           THEN \E out \in translate_sync(o.src, target_language) :
                  Suspend([Req("translate", id, target_language) EXCEPT
                             !.pc = "translated", !.src = o.src,
                             !.res = [NoRes EXCEPT !.status = out.status,
                                                   !.raw = out.text],
                             !.called = out.called])
           ELSE UNCHANGED << reqs, nreq >>

translate_text_only(id, target_language) ==
    LET o == translate_begin(id, target_language)
    IN  /\ nreq < MaxRequests
        /\ transcript_storage' = o.ts
        /\ UNCHANGED << audio_storage, disk, storage_import, next_id, nconv >>
        /\ IF o.status = 0
           THEN Suspend([Req("translate", id, target_language) EXCEPT
                           !.pc = "translate", !.src = o.src])
           ELSE UNCHANGED << reqs, nreq >>

\* conversion.translate_sync on an executor thread
translate_in_thread(r) ==
    /\ r \in reqs
    /\ r.kind = "translate"
    /\ r.pc = "translate"
    /\ \E out \in translate_sync(r.src, r.lang) :
           Worker(r, "translated",
                  [NoRes EXCEPT !.status = out.status, !.raw = out.text],
                  out.called)
    /\ UNCHANGED << audio_storage, transcript_storage, disk, storage_import,
                    nreq, next_id, nconv >>

\* translate_text_only storing the worker's result before looking at it
translate_end_StoreFirst(r) ==
    LET ts == transcript_storage
        translated == r.res.raw
        stored == IF r.id \in DOMAIN ts
                  THEN Put(ts, r.id,
                           Put(ts[r.id], "translated_transcript", translated))
                  ELSE ts
    IN  IF r.res.status # "ok" \/ r.id \notin DOMAIN ts
        THEN Outcome(500, "Translation failed", "", NoBody, stored)
        ELSE Outcome(200, "Translation successful", "",
                     [NoBody EXCEPT !.id = r.id, !.text = translated], stored)

\* translate_text_only keeping the translation already stored
translate_end_KeepFirst(r) ==
    LET ts == transcript_storage
        translated == r.res.raw
    IN  IF r.res.status # "ok" \/ r.id \notin DOMAIN ts
        THEN Outcome(500, "Translation failed", "", NoBody, ts)
        ELSE Outcome(200, "Translation successful", "",
                     [NoBody EXCEPT !.id = r.id, !.text = translated],
                     IF "translated_transcript" \in DOMAIN ts[r.id]
                     THEN ts
                     ELSE Put(ts, r.id,
                              Put(ts[r.id], "translated_transcript",
                                  translated)))

\* routers/conversion.translate_text_only, after "await translate_in_thread"
translate_end(r) ==
    LET ts == transcript_storage
        translated == r.res.raw
    IN  IF r.res.status # "ok" \/ r.id \notin DOMAIN ts
        THEN Outcome(500, "Translation failed", "", NoBody, ts)
        ELSE Outcome(200, "Translation successful", "",
                     [NoBody EXCEPT !.id = r.id, !.text = translated],
                     Put(ts, r.id,
                         Put(ts[r.id], "translated_transcript", translated)))

translate_resume(r) ==
    /\ r \in reqs
    /\ r.kind = "translate"
    /\ r.pc = "translated"
    /\ transcript_storage' = translate_end(r).ts
    /\ Finish(r)
    /\ UNCHANGED << audio_storage, disk, storage_import, nreq, next_id, nconv >>

(* ---------------------- language-code normalization ------------------- *)
\* str.startswith
StartsWith(s, prefix) ==
    Len(s) >= Len(prefix) /\ SubSeq(s, 1, Len(prefix)) = prefix

\* VoiceSynthesisService.SUPPORTED_LANGUAGES, in the order of the dict
\* ("c," is the letter c with a cedilla)
SUPPORTED_LANGUAGES ==
    << [key |-> <<"e", "n">>, code |-> "en"],
       [key |-> <<"e", "n", "g", "l", "i", "s", "h">>, code |-> "en"],
       [key |-> <<"j", "a">>, code |-> "ja"],
       [key |-> <<"j", "a", "p", "a", "n", "e", "s", "e">>, code |-> "ja"],
       [key |-> <<"j", "p">>, code |-> "ja"],
       [key |-> <<"f", "r">>, code |-> "fr"],
       [key |-> <<"f", "r", "e", "n", "c", "h">>, code |-> "fr"],
       [key |-> <<"f", "r", "a", "n", "c,", "a", "i", "s">>, code |-> "fr"] >>

\* the loop matching only keys that the code starts with
RECURSIVE partial_match_KeyPrefixOnly(_, _)
partial_match_KeyPrefixOnly(language_lower, i) ==
    IF i > Len(SUPPORTED_LANGUAGES)
    THEN "en"
    ELSE IF StartsWith(language_lower, SUPPORTED_LANGUAGES[i].key)
    THEN SUPPORTED_LANGUAGES[i].code
    ELSE partial_match_KeyPrefixOnly(language_lower, i + 1)

\* the loop "for key, value in SUPPORTED_LANGUAGES.items()" from entry i:
\* the value of the first key that is a prefix of the code, or has the
\* code as a prefix
RECURSIVE partial_match(_, _)
partial_match(language_lower, i) ==
    IF i > Len(SUPPORTED_LANGUAGES)
    THEN "en"
    ELSE IF \/ StartsWith(language_lower, SUPPORTED_LANGUAGES[i].key)
            \/ StartsWith(SUPPORTED_LANGUAGES[i].key, language_lower)
    THEN SUPPORTED_LANGUAGES[i].code
    ELSE partial_match(language_lower, i + 1)

\* _normalize_language_code falling back to the code as given
normalize_language_code_AsGiven(language) ==
    IF language = None \/ language = <<>>
    THEN "en"
    ELSE LET language_lower == Strip(Lower(language))
             direct == { i \in 1..Len(SUPPORTED_LANGUAGES) :
                           SUPPORTED_LANGUAGES[i].key = language_lower }
         IN  IF direct # {}
             THEN SUPPORTED_LANGUAGES[CHOOSE i \in direct : TRUE].code
             ELSE "as given"

\* VoiceSynthesisService._normalize_language_code
normalize_language_code(language) ==
    IF language = None \/ language = <<>>
    THEN "en"
    ELSE LET language_lower == Strip(Lower(language))
             direct == { i \in 1..Len(SUPPORTED_LANGUAGES) :
                           SUPPORTED_LANGUAGES[i].key = language_lower }
         IN  IF direct # {}
             THEN SUPPORTED_LANGUAGES[CHOOSE i \in direct : TRUE].code
             ELSE partial_match(language_lower, 1)

(* --------------------------- voice-conversion ------------------------- *)
\* the stored translation taken before the caller's own text
text_to_synthesize_StoredFirst(request_text, session) ==
    IF Truthy(Get(session, "translated_transcript", None))
    THEN session["translated_transcript"]
    ELSE IF Truthy(request_text)
    THEN request_text
    ELSE IF Truthy(Get(session, "corrected_transcript", None))
    THEN session["corrected_transcript"]
    ELSE Get(session, "raw_transcript", <<>>)

\* convert_voice_with_language: the text it decides to synthesize
text_to_synthesize(request_text, session) ==
    IF Truthy(request_text)
    THEN request_text
    ELSE IF Truthy(Get(session, "translated_transcript", None))
    THEN session["translated_transcript"]
    ELSE IF Truthy(Get(session, "corrected_transcript", None))
    THEN session["corrected_transcript"]
    ELSE Get(session, "raw_transcript", <<>>)

\* routers/conversion.convert_voice_with_language, up to "await synthesize_voice"
convert_voice_begin(id, target_language, text) ==
    LET ts == transcript_storage
    IN  IF id \notin DOMAIN transcript_storage
        THEN Outcome(404, "Transcript not found", "", NoBody, ts)
        ELSE IF id \notin DOMAIN audio_storage
        THEN Outcome(404, "Audio not found", "", NoBody, ts)
        ELSE LET chosen == text_to_synthesize(text, transcript_storage[id])
                 found == get_audio_file(id)
             IN  IF ~Truthy(chosen)
                 THEN Outcome(400, "No text available for synthesis", "",
                              NoBody, ts)
                 ELSE IF ~found.ok
                 THEN Outcome(404, "Audio file not found on disk", "",
                              NoBody, ts)
                 ELSE [Outcome(0, "", "", NoBody, ts) EXCEPT
                         !.src = chosen, !.path = found.path]

convert_voice_with_language(id, target_language, text) ==
    LET o == convert_voice_begin(id, target_language, text)
    IN  /\ nreq < MaxRequests
        /\ transcript_storage' = o.ts
        /\ UNCHANGED << audio_storage, disk, storage_import, next_id, nconv >>
        /\ IF o.status = 0
           THEN Suspend([Req("voice_conversion", id, target_language)
                           EXCEPT !.pc = "synth", !.src = o.src,
                                  !.path = o.path])
           ELSE UNCHANGED << reqs, nreq >>

\* the bytes the voice-conversion model writes
SynthBytes == <<2>>

\* "no file": not a byte string
NoFile == <<-1>>

\* VoiceSynthesisService.synthesize: what a call can leave behind.
\* written is the file the model call left at output_path (NoFile: none).
synthesize(reference_audio_path, written) ==
    IF reference_audio_path \notin DOMAIN disk
    THEN { [status |-> "FileNotFoundError", file |-> NoFile] }
         \* "Reference audio file not found"
    ELSE { [status |-> "Exception", file |-> NoFile],
           [status |-> "ok", file |-> written] }

\* routers/conversion.synthesize_voice on an executor thread
synthesize_voice(r) ==
    LET output_path == << "static", "converted", nconv + 1, r.lang >>
    IN  /\ r \in reqs
        /\ r.kind = "voice_conversion"
        /\ r.pc = "synth"
        /\ UNCHANGED << audio_storage, transcript_storage, storage_import,
                        nreq, next_id >>
        /\ \/ \* get_voice_synthesis_service() raised
              /\ UNCHANGED << disk, nconv >>
              /\ Worker(r, "synth_done", [NoRes EXCEPT !.status = "Exception"],
                        FALSE)
           \/ \E written \in { NoFile, <<>>, SynthBytes } :
              \E out \in synthesize(r.path, written) :
                /\ nconv' = nconv + 1
                /\ disk' = IF out.file = NoFile THEN disk
                           ELSE Put(disk, output_path, out.file)
                /\ Worker(r, "synth_done",
                          [NoRes EXCEPT
                             !.path = output_path,
                             !.raw = r.src,  \* synthesize(text=...)
                             !.status = IF out.status = "ok" /\ out.file = NoFile
                                        THEN "FileNotFoundError"
                                        ELSE out.status,
                             !.error =
                               IF out.status = "FileNotFoundError"
                               THEN "Reference audio file not found"
                               ELSE IF out.status = "ok" /\ out.file = NoFile
                               THEN "Synthesized audio file not created"
                               ELSE ""],
                          TRUE)

\* the public URL of an output path: "/static/" + path without "static/"
audio_url(synth_path) ==
    IF synth_path # <<>> /\ Head(synth_path) = "static"
    THEN <<"/static">> \o Tail(synth_path)
    ELSE <<"/static">> \o synth_path

\* convert_voice_with_language answering without storing the record
convert_voice_end_NoRecord(r) ==
    LET synth_path == r.res.path
        ts == transcript_storage
    IN  IF r.res.status = "FileNotFoundError"
        THEN Outcome(404, "Audio file not found on disk", "", NoBody, ts)
        ELSE IF r.res.status = "Exception"
        THEN Outcome(500, "Voice conversion failed", "", NoBody, ts)
        ELSE IF synth_path \notin DOMAIN disk
        THEN \* HTTPException(500), caught by "except Exception"
             Outcome(500, "Voice conversion failed: 500: Synthesized audio not found",
                     "", NoBody, ts)
        ELSE IF r.id \notin DOMAIN ts
        THEN Outcome(500, "Voice conversion failed", "", NoBody, ts)
        ELSE Outcome(200, "Voice conversion successful", "",
                     [NoBody EXCEPT !.id = r.id, !.text = r.src,
                                    !.path = synth_path,
                                    !.url = audio_url(synth_path)],
                     ts)

\* routers/conversion.convert_voice_with_language, after the await
convert_voice_end(r) ==
    LET synth_path == r.res.path
        id == r.id
        ts == transcript_storage
    IN  IF r.res.status = "FileNotFoundError"
        THEN Outcome(404, "Audio file not found on disk", "", NoBody, ts)
        ELSE IF r.res.status = "Exception"
        THEN Outcome(500, "Voice conversion failed", "", NoBody, ts)
        ELSE IF synth_path \notin DOMAIN disk
        THEN \* HTTPException(500), caught by "except Exception"
             Outcome(500, "Voice conversion failed: 500: Synthesized audio not found",
                     "", NoBody, ts)
        ELSE IF id \notin DOMAIN ts
        THEN Outcome(500, "Voice conversion failed", "", NoBody, ts)
        ELSE LET session == ts[id]
                 conversions == Get(session, "voice_conversions", EmptyDict)
                 record == [audio_path |-> synth_path, text |-> r.src,
                            audio_url |-> audio_url(synth_path)]
             IN  Outcome(200, "Voice conversion successful", "",
                         [NoBody EXCEPT !.id = id, !.text = r.src,
                                        !.path = synth_path,
                                        !.url = audio_url(synth_path)],
                         Put(ts, id,
                             Put(session, "voice_conversions",
                                 Put(conversions, r.lang, record))))

convert_voice_resume(r) ==
    /\ r \in reqs
    /\ r.kind = "voice_conversion"
    /\ r.pc = "synth_done"
    /\ transcript_storage' = convert_voice_end(r).ts
    /\ Finish(r)
    /\ UNCHANGED << audio_storage, disk, storage_import, nreq, next_id, nconv >>

(* ------------------------------- cleanup ------------------------------ *)
\* d without the keys in ks
Without(d, ks) == [x \in (DOMAIN d) \ ks |-> d[x]]

\* main.perform_cleanup step 1: unlink every backing file, clear the store.
\* stuck: the files whose unlink raised (logged, skipped).  The result is
\* the Artifact Store and the disk as the step leaves them.
clean_audio_storage(stuck) ==
    LET files == { audio_storage[a].file_path : a \in DOMAIN audio_storage }
    IN  IF storage_import = "shared"
        THEN [as |-> EmptyDict, disk |-> Without(disk, files \ stuck)]
        ELSE \* ImportError, or a module object with stores of its own
             [as |-> audio_storage, disk |-> disk]

\* main.perform_cleanup (POST /cleanup, or lifespan shutdown), up to the
\* "await asyncio.gather" of the directory sweeps
perform_cleanup(stuck) ==
    LET files == { audio_storage[a].file_path : a \in DOMAIN audio_storage }
        o == clean_audio_storage(stuck)
    IN  /\ nreq < MaxRequests
        /\ stuck \subseteq (files \cap DOMAIN disk)
        /\ storage_import # "shared" => stuck = {}
        /\ audio_storage' = o.as
        /\ disk' = o.disk
        /\ UNCHANGED << transcript_storage, storage_import, next_id, nconv >>
        /\ Suspend([Req("cleanup", 0, "") EXCEPT !.pc = "sweep"])

\* the files under static/
StaticFiles == { f \in DOMAIN disk : Head(f) = "static" }

\* cleanup_dir's loop: every file under static/ that the listing saw is
\* unlinked; stuck are the files whose unlink raised (logged, skipped)
cleanup_files(stuck) == Without(disk, StaticFiles \ stuck)

\* main.cleanup_files_async's cleanup_dir on an executor thread
cleanup_dir(r, stuck) ==
    /\ r \in reqs
    /\ r.kind \in { "cleanup", "shutdown" }
    /\ r.pc = "sweep"
    /\ stuck \subseteq StaticFiles
    /\ disk' = cleanup_files(stuck)
    /\ Worker(r, "swept", r.res, TRUE)
    /\ UNCHANGED << audio_storage, transcript_storage, storage_import, nreq,
                    next_id, nconv >>

\* main.perform_cleanup after the gather: GPU cache, gc, return
perform_cleanup_resume(r) ==
    /\ r \in reqs
    /\ r.kind = "cleanup"
    /\ r.pc = "swept"
    /\ Finish(r)
    /\ UNCHANGED << audio_storage, transcript_storage, disk, storage_import,
                    nreq, next_id, nconv >>

(* ------------------------------ shutdown ------------------------------ *)
\* main.lifespan after the yield:
\*     try:
\*         async with asyncio.timeout(10): await perform_cleanup()
\*     except asyncio.TimeoutError: (logged)
\*     except Exception: (logged)
\* ended: how the "async with" block ended.  The result is how lifespan ends.
lifespan_except_TimeoutOnly(ended) ==
    IF ended = "returned" THEN "completed"
    ELSE IF ended = "TimeoutError" THEN "timeout_logged"
    ELSE "raised"

lifespan_except(ended) ==
    IF ended = "returned" THEN "completed"
    ELSE IF ended = "TimeoutError" THEN "timeout_logged"
    ELSE "error_logged"

\* no shutdown has begun: the server takes requests
Serving == \A r \in reqs : r.kind # "shutdown"

\* lifespan's shutdown half, once the server has drained its requests:
\* perform_cleanup up to the "await asyncio.gather".  throws: step 1 raised
\* outside its per-file try (caught by step 1's own "except Exception",
\* which skips the clear).
lifespan_shutdown(stuck, throws) ==
    LET files == { audio_storage[a].file_path : a \in DOMAIN audio_storage }
        o == clean_audio_storage(stuck)
    IN  /\ reqs = {}
        /\ stuck \subseteq (files \cap DOMAIN disk)
        /\ storage_import # "shared" => ( stuck = {} /\ ~throws )
        /\ audio_storage' = IF throws THEN audio_storage ELSE o.as
        /\ disk' = IF throws THEN disk ELSE o.disk
        /\ reqs' = { [Req("shutdown", 0, "") EXCEPT
                        !.pc = "sweep",
                        !.res = [NoRes EXCEPT
                                   !.error = IF throws THEN "audio storage"
                                             ELSE ""]] }
        /\ UNCHANGED << transcript_storage, storage_import, nreq, next_id,
                        nconv >>

\* asyncio.timeout(10) expires while perform_cleanup is suspended at an
\* await: the await is cancelled, lifespan logs the TimeoutError
lifespan_timeout(r) ==
    /\ r \in reqs
    /\ r.kind = "shutdown"
    /\ r.pc \in { "sweep", "swept" }
    /\ reqs' = (reqs \ {r}) \cup
                 { [r EXCEPT !.pc = "done",
                             !.res.status = lifespan_except("TimeoutError")] }
    /\ UNCHANGED << audio_storage, transcript_storage, disk, storage_import,
                    nreq, next_id, nconv >>

\* perform_cleanup after the gather (GPU cache, gc) and lifespan's end
lifespan_resume(r, ended) ==
    /\ r \in reqs
    /\ r.kind = "shutdown"
    /\ r.pc = "swept"
    /\ ended \in { "returned", "Exception" }
    /\ reqs' = (reqs \ {r}) \cup
                 { [r EXCEPT !.pc = "done",
                             !.res.status = lifespan_except(ended)] }
    /\ UNCHANGED << audio_storage, transcript_storage, disk, storage_import,
                    nreq, next_id, nconv >>

\* the executor thread of a sweep whose await was cancelled: a thread
\* cannot be cancelled, so cleanup_dir still runs
cleanup_dir_abandoned(r, stuck) ==
    /\ r \in reqs
    /\ r.kind = "shutdown"
    /\ r.pc = "done"
    /\ ~r.called
    /\ stuck \subseteq StaticFiles
    /\ disk' = cleanup_files(stuck)
    /\ reqs' = (reqs \ {r}) \cup { [r EXCEPT !.called = TRUE] }
    /\ UNCHANGED << audio_storage, transcript_storage, storage_import, nreq,
                    next_id, nconv >>

(* ----------------------------- environment ---------------------------- *)
\* the system temp directory (utils.TEMP_AUDIO_DIR) loses an uploaded file
backing_file_lost(id) ==
    /\ id \in DOMAIN audio_storage
    /\ audio_storage[id].file_path \in DOMAIN disk
    /\ disk' = Without(disk, { audio_storage[id].file_path })
    /\ UNCHANGED << audio_storage, transcript_storage, storage_import, reqs,
                    nreq, next_id, nconv >>

(* ---------------------------- specification --------------------------- *)
\* the sets of files whose unlink fails during a sweep: here every unlink
\* succeeds
NoStuck == { {} }

\* what a step of the pipeline leaves alone
others == << transcript_service, guard_call, lang_call, singleton, constructed,
            threads >>


Next ==
    \/ \E filename \in Filenames, contents \in Contents, written \in BOOLEAN :
           upload_audio(filename, contents, written) /\ UNCHANGED others
    \/ \E id \in KnownIds : get_transcript(id) /\ UNCHANGED others
    \/ \E r \in reqs : process_audio_sync(r) /\ UNCHANGED others
    \/ \E r \in reqs : get_transcript_resume(r) /\ UNCHANGED others
    \/ \E id \in KnownIds, transcript \in UpdateTexts :
           update_transcript(id, transcript) /\ UNCHANGED others
    \/ \E id \in KnownIds, lang \in TargetLangs :
           translate_text_only(id, lang) /\ UNCHANGED others
    \/ \E r \in reqs : translate_in_thread(r) /\ UNCHANGED others
    \/ \E r \in reqs : translate_resume(r) /\ UNCHANGED others
    \/ \E id \in KnownIds, lang \in TargetLangs, text \in CallerTexts :
           convert_voice_with_language(id, lang, text) /\ UNCHANGED others
    \/ \E r \in reqs : synthesize_voice(r) /\ UNCHANGED others
    \/ \E r \in reqs : convert_voice_resume(r) /\ UNCHANGED others
    \/ \E stuck \in NoStuck : perform_cleanup(stuck) /\ UNCHANGED others
    \/ \E r \in reqs, stuck \in NoStuck :
           cleanup_dir(r, stuck) /\ UNCHANGED others
    \/ \E r \in reqs : perform_cleanup_resume(r) /\ UNCHANGED others
    \/ \E id \in DOMAIN audio_storage : backing_file_lost(id) /\ UNCHANGED others

Spec == Init /\ [][Next]_vars

(* ------------------------ the service accessors ----------------------- *)
\* get_transcript_service, get_translation_service and
\* get_voice_synthesis_service have one shape:
\*     global X
\*     if X is None:  X = Service()
\*     return X
\* Instances are numbered from 1; 0 is None.  Executor threads run the
\* accessor concurrently, so each read and write of X is a step.

\* a thread enters the accessor of a service
accessor_call(t, service) ==
    /\ threads[t].pc \in { "idle", "done", "raised" }
    /\ threads' = [threads EXCEPT ![t] =
                     [pc |-> "check", service |-> service, made |-> 0,
                      got |-> 0]]
    /\ UNCHANGED << singleton, constructed >>

\* "if X is None"
accessor_check(t) ==
    /\ threads[t].pc = "check"
    /\ threads' = [threads EXCEPT ![t].pc =
                     IF singleton[threads[t].service] = 0
                     THEN "construct" ELSE "return"]
    /\ UNCHANGED << singleton, constructed >>

\* "Service()": the constructor loads the models; it may raise, and the
\* accessor re-raises
accessor_construct(t, raises) ==
    LET service == threads[t].service
    IN  /\ threads[t].pc = "construct"
        /\ IF raises
           THEN /\ threads' = [threads EXCEPT ![t].pc = "raised"]
                /\ UNCHANGED constructed
           ELSE /\ constructed[service] < MaxThreads
                /\ constructed' =
                       [constructed EXCEPT ![service] = @ + 1]
                /\ threads' = [threads EXCEPT
                                 ![t].pc = "assign",
                                 ![t].made = constructed[service] + 1]
        /\ UNCHANGED singleton

\* "X = ..."
accessor_assign(t) ==
    /\ threads[t].pc = "assign"
    /\ singleton' = [singleton EXCEPT ![threads[t].service] = threads[t].made]
    /\ threads' = [threads EXCEPT ![t].pc = "return"]
    /\ UNCHANGED constructed

\* "return X"
accessor_return(t) ==
    /\ threads[t].pc = "return"
    /\ threads' = [threads EXCEPT ![t].pc = "done",
                                  ![t].got = singleton[threads[t].service]]
    /\ UNCHANGED << singleton, constructed >>

\* transcript_service.py:276-280 constructs the TranscriptService when the
\* module is imported (None if that raised); the other two stay None
AccessorInit ==
    /\ Started
    /\ guard_call = [text |-> <<>>, asked |-> <<>>, result |-> <<>>,
                     done |-> FALSE]
    /\ lang_call = [language |-> <<>>, result |-> "", done |-> FALSE]
    /\ threads = [t \in Threads |->
                    [pc |-> "idle", service |-> "", made |-> 0, got |-> 0]]
    /\ \E built \in {0, 1} :
         /\ singleton = [s \in Services |->
                           IF s = "transcript" THEN built ELSE 0]
         /\ constructed = singleton

\* what an accessor step leaves alone
accessor_frame == << audio_storage, transcript_storage, disk, storage_import,
                     reqs, nreq, next_id, nconv, transcript_service,
                     guard_call, lang_call >>

AccessorNext ==
    \/ \E t \in Threads, service \in Services :
           accessor_call(t, service)
           /\ UNCHANGED accessor_frame
    \/ \E t \in Threads : accessor_check(t)
           /\ UNCHANGED accessor_frame
    \/ \E t \in Threads, raises \in BOOLEAN :
           accessor_construct(t, raises)
           /\ UNCHANGED accessor_frame
    \/ \E t \in Threads : accessor_assign(t)
           /\ UNCHANGED accessor_frame
    \/ \E t \in Threads : accessor_return(t)
           /\ UNCHANGED accessor_frame

AccessorSpec == AccessorInit /\ [][AccessorNext]_vars

(* ------------------------- serving, then shutdown --------------------- *)
\* the sets of files whose unlink can fail during shutdown
Stuck == SUBSET (DOMAIN disk)

ShutdownNext ==
    \/ \E filename \in Filenames, contents \in Contents, written \in BOOLEAN :
           Serving /\ upload_audio(filename, contents, written)
           /\ UNCHANGED others
    \/ \E id \in KnownIds, transcript \in UpdateTexts :
           Serving /\ update_transcript(id, transcript) /\ UNCHANGED others
    \/ \E id \in KnownIds, lang \in TargetLangs, text \in CallerTexts :
           Serving /\ convert_voice_with_language(id, lang, text)
           /\ UNCHANGED others
    \/ \E r \in reqs : synthesize_voice(r) /\ UNCHANGED others
    \/ \E r \in reqs : convert_voice_resume(r) /\ UNCHANGED others
    \/ \E stuck \in Stuck, throws \in BOOLEAN :
           lifespan_shutdown(stuck, throws) /\ UNCHANGED others
    \/ \E r \in reqs, stuck \in Stuck :
           cleanup_dir(r, stuck) /\ UNCHANGED others
    \/ \E r \in reqs : lifespan_timeout(r) /\ UNCHANGED others
    \/ \E r \in reqs, ended \in { "returned", "Exception" } :
           lifespan_resume(r, ended) /\ UNCHANGED others
    \/ \E r \in reqs, stuck \in Stuck :
           cleanup_dir_abandoned(r, stuck) /\ UNCHANGED others

\* the event loop keeps running during shutdown, so the timer of
\* asyncio.timeout(10) fires unless perform_cleanup has returned; the
\* executor thread may never return
ShutdownSpec ==
    /\ Init
    /\ [][ShutdownNext]_vars
    /\ WF_vars(\E r \in reqs : lifespan_timeout(r) /\ UNCHANGED others)

(* ------------------------ the Language Guard alone -------------------- *)
\* texts of up to MaxLetters letters, with up to MaxPad blanks on each side
MaxLetters == 11

MaxPad == 1

GuardTexts ==
    { Rep(" ", l) \o Rep(c, n) \o Rep(" ", t) :
        c \in { "v", "w", "l", "e", "x" }, n \in 0..MaxLetters,
        l \in 0..MaxPad, t \in 0..MaxPad }

GuardInit ==
    /\ Started
    /\ lang_call = [language |-> <<>>, result |-> "", done |-> FALSE]
    /\ singleton = [s \in Services |-> 0]
    /\ constructed = [s \in Services |-> 0]
    /\ threads = [t \in Threads |->
                    [pc |-> "idle", service |-> "", made |-> 0, got |-> 0]]
    /\ guard_call \in { [text |-> t, asked |-> <<>>, result |-> <<>>,
                         done |-> FALSE] : t \in GuardTexts }

\* one call of is_vietnamese_transcript
guard(transcript) ==
    /\ ~guard_call.done
    /\ guard_call.text = transcript
    /\ guard_call' = [text |-> transcript,
                      asked |-> detect_calls(transcript),
                      result |-> is_vietnamese_transcript(transcript),
                      done |-> TRUE]
    /\ UNCHANGED << pipeline, transcript_service, lang_call, singleton,
                    constructed, threads >>

\* the caller goes on to its next text
guard_again(transcript) ==
    /\ guard_call.done
    /\ guard_call' = [text |-> transcript, asked |-> <<>>, result |-> <<>>,
                      done |-> FALSE]
    /\ UNCHANGED << pipeline, transcript_service, lang_call, singleton,
                    constructed, threads >>

GuardNext ==
    \/ \E transcript \in GuardTexts : guard(transcript)
    \/ \E transcript \in GuardTexts : guard_again(transcript)

GuardSpec == GuardInit /\ [][GuardNext]_vars

(* ------------------- language-code normalization alone ---------------- *)
\* language arguments: absent, every string of up to MaxCodeLen of these
\* characters, and the names of the table in some spellings
MaxCodeLen == 3

CodeChars == { "e", "n", "j", "a", "p", "f", "r", "d", "E", "J", " " }

RECURSIVE CodesOfLen(_)
CodesOfLen(n) ==
    IF n = 0 THEN { <<>> }
    ELSE { <<c>> \o t : c \in CodeChars, t \in CodesOfLen(n - 1) }

Languages ==
    { None }
    \cup UNION { CodesOfLen(n) : n \in 0..MaxCodeLen }
    \cup { SUPPORTED_LANGUAGES[i].key : i \in 1..Len(SUPPORTED_LANGUAGES) }
    \cup { <<"E", "n", "g", "l", "i", "s", "h">>,
           <<"f", "r", "e", "n", "c", "h", "-", "c", "a">>,
           <<"j", "a", "p", "a", "n">>,
           <<"g", "e", "r", "m", "a", "n">> }

NormalizeInit ==
    /\ Started
    /\ guard_call = [text |-> <<>>, asked |-> <<>>, result |-> <<>>,
                     done |-> FALSE]
    /\ singleton = [s \in Services |-> 0]
    /\ constructed = [s \in Services |-> 0]
    /\ threads = [t \in Threads |->
                    [pc |-> "idle", service |-> "", made |-> 0, got |-> 0]]
    /\ lang_call \in { [language |-> l, result |-> "", done |-> FALSE] :
                       l \in Languages }

\* one call of _normalize_language_code
normalize(language) ==
    /\ ~lang_call.done
    /\ lang_call.language = language
    /\ lang_call' = [language |-> language,
                     result |-> normalize_language_code(language),
                     done |-> TRUE]
    /\ UNCHANGED << pipeline, transcript_service, guard_call, singleton,
                    constructed, threads >>

NormalizeNext == \E language \in Languages : normalize(language)

NormalizeSpec == NormalizeInit /\ [][NormalizeNext]_vars

(* ------------------- upload and transcription alone ------------------- *)
\* names of uploaded files: accepted (one needing conversion to WAV) and
\* refused (wrong extension, extension not at the end, no dot, no name)
IntakeNames ==
    { <<"a", ".", "w", "a", "v">>,
      <<"b", ".", "M", "P", "3">>,
      <<"a", ".", "t", "x", "t">>,
      <<"a", ".", "w", "a", "v", ".", "t", "x", "t">>,
      <<"w", "a", "v">>,
      <<>> }

IntakeNext ==
    \/ \E filename \in IntakeNames, contents \in Contents, written \in BOOLEAN :
           upload_audio(filename, contents, written) /\ UNCHANGED others
    \/ \E id \in KnownIds : get_transcript(id) /\ UNCHANGED others
    \/ \E r \in reqs : process_audio_sync(r) /\ UNCHANGED others
    \/ \E r \in reqs : get_transcript_resume(r) /\ UNCHANGED others

IntakeSpec == Init /\ [][IntakeNext]_vars

(* ----------------------------- translate alone ------------------------ *)
\* target languages: two that the translator supports, one it does not
TranslateLangs == { "fr", "ja", "de" }

TranslateNext ==
    \/ \E filename \in Filenames, contents \in Contents, written \in BOOLEAN :
           upload_audio(filename, contents, written) /\ UNCHANGED others
    \/ \E id \in KnownIds, transcript \in UpdateTexts :
           update_transcript(id, transcript) /\ UNCHANGED others
    \/ \E id \in KnownIds, lang \in TranslateLangs :
           translate_text_only(id, lang) /\ UNCHANGED others
    \/ \E r \in reqs : translate_in_thread(r) /\ UNCHANGED others
    \/ \E r \in reqs : translate_resume(r) /\ UNCHANGED others

TranslateSpec == Init /\ [][TranslateNext]_vars

(* ------------------------------ upload alone -------------------------- *)
\* bodies of uploaded files
IntakeContents == { <<>>, <<1>>, <<2, 1>> }

UploadNext ==
    \E filename \in IntakeNames, contents \in IntakeContents,
       written \in BOOLEAN :
        upload_audio(filename, contents, written) /\ UNCHANGED others

UploadSpec == Init /\ [][UploadNext]_vars

(* ----------------- the transcription job, step by step ---------------- *)
\* tempfile.NamedTemporaryFile(delete=False, suffix=".wav"): the file of
\* the transcribe call made for request r (a name no other call gets)
tmp_wav_path(r) == << "tmp", r.rid, <<".", "w", "a", "v">> >>

\* what audio_seg.export writes
WavBytes == <<3>>

\* process_audio's answer when transcribe raised
transcribe_raised(steps) ==
    [NoRes EXCEPT !.status = "error", !.raw = <<>>, !.corrected = <<>>,
                  !.steps = steps, !.error = "Transcription failed"]

\* process_audio_sync up to transcribe's step 1: the accessor, the
\* asr_loaded test of process_audio, the conversion of a non-WAV file.
\* available: get_transcript_service() returned; decoded: pydub could read
\* the file; exported: the export to the temporary file succeeded
transcribe_convert(r, available, decoded, exported) ==
    LET suffix == Lower(r.path[3])
        tmp_wav == tmp_wav_path(r)
    IN  /\ r \in reqs
        /\ r.kind = "get_transcript"
        /\ r.pc = "asr"
        /\ IF ~available
           THEN /\ Worker(r, "asr_done",
                          [NoRes EXCEPT !.status = "error",
                                        !.error = "service unavailable"],
                          FALSE)
                /\ disk' = disk
           ELSE IF ~transcript_service.asr_loaded
           THEN /\ Worker(r, "asr_done",
                          [NoRes EXCEPT
                             !.status = "error", !.raw = <<>>,
                             !.corrected = <<>>,
                             !.error = "ASR model not loaded - cannot process audio"],
                          FALSE)
                /\ disk' = disk
           ELSE IF suffix = <<".", "w", "a", "v">>
           THEN /\ Worker(r, "validate", [NoRes EXCEPT !.path = r.path],
                          FALSE)
                /\ disk' = disk
           ELSE IF r.path \notin DOMAIN disk \/ ~decoded
           THEN \* AudioSegment.from_file raises: no temporary file yet
                /\ Worker(r, "asr_done", transcribe_raised({"convert"}), TRUE)
                /\ disk' = disk
           ELSE IF ~exported
           THEN \* export raises after the temporary file was created
                /\ Worker(r, "asr_done", transcribe_raised({"convert"}), TRUE)
                /\ disk' = Put(disk, tmp_wav, <<>>)
           ELSE /\ Worker(r, "validate",
                          [NoRes EXCEPT !.path = tmp_wav,
                                        !.steps = {"convert"}],
                          TRUE)
                /\ disk' = Put(disk, tmp_wav, WavBytes)
        /\ UNCHANGED << audio_storage, transcript_storage, storage_import,
                        nreq, next_id, nconv >>

\* transcribe's step 2, _validate_audio_file on the (possibly converted)
\* file.  readable: soundfile could read its header
transcribe_validate(r, readable) ==
    LET audio_path == r.res.path
        valid == /\ audio_path \in DOMAIN disk
                 /\ disk[audio_path] # <<>>
                 /\ readable
    IN  /\ r \in reqs
        /\ r.kind = "get_transcript"
        /\ r.pc = "validate"
        /\ IF valid
           THEN Worker(r, "load", r.res, r.called)
           ELSE Worker(r, "asr_done", transcribe_raised(r.res.steps),
                       r.res.steps # {})
        /\ UNCHANGED << audio_storage, transcript_storage, disk,
                        storage_import, nreq, next_id, nconv >>

\* transcribe's steps 3 and 4: sf.read, then os.remove of the temporary
\* file (an OSError there means the file is already gone).  loaded: sf.read
\* returned
transcribe_load(r, loaded) ==
    LET audio_path == r.res.path
        suffix == Lower(r.path[3])
    IN  /\ r \in reqs
        /\ r.kind = "get_transcript"
        /\ r.pc = "load"
        /\ IF audio_path \notin DOMAIN disk \/ ~loaded
           THEN /\ Worker(r, "asr_done", transcribe_raised(r.res.steps),
                          r.res.steps # {})
                /\ disk' = disk
           ELSE /\ Worker(r, "infer", r.res, r.called)
                /\ disk' = IF suffix # <<".", "w", "a", "v">>
                           THEN [f \in (DOMAIN disk) \ {audio_path} |-> disk[f]]
                           ELSE disk
        /\ UNCHANGED << audio_storage, transcript_storage, storage_import,
                        nreq, next_id, nconv >>

\* transcribe's steps 5 and 6 and the rest of process_audio: Whisper
\* inference, then correct_text.  inferred: the model call returned
transcribe_infer(r, inferred, text, throws) ==
    LET steps == r.res.steps \cup {"asr"}
        c == correct_text(text, throws)
    IN  /\ r \in reqs
        /\ r.kind = "get_transcript"
        /\ r.pc = "infer"
        /\ IF ~inferred
           THEN Worker(r, "asr_done", transcribe_raised(steps), TRUE)
           ELSE Worker(r, "asr_done",
                       [NoRes EXCEPT
                          !.status = "success", !.raw = text,
                          !.corrected = c.text,
                          !.steps = steps \cup
                                    (IF c.called THEN {"correct"} ELSE {})],
                       TRUE)
        /\ UNCHANGED << audio_storage, transcript_storage, disk,
                        storage_import, nreq, next_id, nconv >>

TranscribeNext ==
    \/ \E filename \in IntakeNames, contents \in Contents, written \in BOOLEAN :
           upload_audio(filename, contents, written) /\ UNCHANGED others
    \/ \E id \in KnownIds : get_transcript(id) /\ UNCHANGED others
    \/ \E r \in reqs, available, decoded, exported \in BOOLEAN :
           transcribe_convert(r, available, decoded, exported)
           /\ UNCHANGED others
    \/ \E r \in reqs, readable \in BOOLEAN :
           transcribe_validate(r, readable) /\ UNCHANGED others
    \/ \E r \in reqs, loaded \in BOOLEAN :
           transcribe_load(r, loaded) /\ UNCHANGED others
    \/ \E r \in reqs, inferred, throws \in BOOLEAN, text \in AsrTexts :
           transcribe_infer(r, inferred, text, throws) /\ UNCHANGED others
    \/ \E r \in reqs : get_transcript_resume(r) /\ UNCHANGED others

TranscribeSpec == Init /\ [][TranscribeNext]_vars

(* -------------------- the synthesis job, step by step ----------------- *)
\* target_language values of voice-conversion requests, as strings: a
\* table code, the same in capitals, a code that is not in the table
SynthLangs == { <<"f", "r">>, <<"F", "R">>, <<"d", "e">> }

\* one invocation of a model capability by synthesize: which phase, the
\* language it was given, the file it reads or writes
Phase(phase, language, path) ==
    [phase |-> phase, language |-> language, path |-> path]

\* synthesize_voice going into synthesize without the test that the
\* reference audio exists
synthesize_call_NoReferenceCheck(r, available) ==
    LET output_path == << "static", "converted", nconv + 1, r.lang >>
    IN  /\ r \in reqs
        /\ r.kind = "voice_conversion"
        /\ r.pc = "synth"
        /\ UNCHANGED << audio_storage, transcript_storage, disk,
                        storage_import, nreq, next_id >>
        /\ IF ~available
           THEN /\ UNCHANGED << nconv, lang_call >>
                /\ Worker(r, "synth_done",
                          [NoRes EXCEPT !.status = "Exception"], FALSE)
           ELSE /\ nconv' = nconv + 1
                /\ lang_call' = [language |-> r.lang,
                                 result |-> normalize_language_code(r.lang),
                                 done |-> TRUE]
                /\ Worker(r, "latents",
                          [NoRes EXCEPT !.path = output_path, !.raw = r.src],
                          TRUE)

\* routers/conversion.synthesize_voice up to the first phase of
\* VoiceSynthesisService.synthesize: the accessor, the output file name,
\* the normalization of the language, the test that the reference audio
\* exists.  available: get_voice_synthesis_service() returned
synthesize_call(r, available) ==
    LET output_path == << "static", "converted", nconv + 1, r.lang >>
    IN  /\ r \in reqs
        /\ r.kind = "voice_conversion"
        /\ r.pc = "synth"
        /\ UNCHANGED << audio_storage, transcript_storage, disk,
                        storage_import, nreq, next_id >>
        /\ IF ~available
           THEN /\ UNCHANGED << nconv, lang_call >>
                /\ Worker(r, "synth_done",
                          [NoRes EXCEPT !.status = "Exception"], FALSE)
           ELSE /\ nconv' = nconv + 1
                /\ lang_call' = [language |-> r.lang,
                                 result |-> normalize_language_code(r.lang),
                                 done |-> TRUE]
                /\ IF r.path \notin DOMAIN disk
                   THEN Worker(r, "synth_done",
                               [NoRes EXCEPT
                                  !.path = output_path, !.raw = r.src,
                                  !.status = "FileNotFoundError",
                                  !.error = "Reference audio file not found"],
                               TRUE)
                   ELSE Worker(r, "latents",
                               [NoRes EXCEPT !.path = output_path,
                                             !.raw = r.src],
                               TRUE)

\* phase 1, xtts_model.get_conditioning_latents on the reference audio.
\* extracted: the call returned
synthesize_latents(r, extracted) ==
    LET invoked == r.res.steps \cup { Phase("latents", "", r.path) }
    IN  /\ r \in reqs
        /\ r.kind = "voice_conversion"
        /\ r.pc = "latents"
        /\ IF r.path \in DOMAIN disk /\ extracted
           THEN Worker(r, "inference", [r.res EXCEPT !.steps = invoked], TRUE)
           ELSE Worker(r, "synth_done",
                       [r.res EXCEPT !.steps = invoked,
                                     !.status = "Exception"],
                       TRUE)
        /\ UNCHANGED << audio_storage, transcript_storage, disk,
                        storage_import, nreq, next_id, nconv, lang_call >>

\* phase 2, xtts_model.inference(text, language=normalized_language, ...).
\* generated: the call returned
synthesize_inference(r, generated) ==
    LET normalized_language == normalize_language_code(r.lang)
        invoked == r.res.steps
                   \cup { Phase("inference", normalized_language, <<>>) }
    IN  /\ r \in reqs
        /\ r.kind = "voice_conversion"
        /\ r.pc = "inference"
        /\ IF generated
           THEN Worker(r, "conversion", [r.res EXCEPT !.steps = invoked],
                       TRUE)
           ELSE Worker(r, "synth_done",
                       [r.res EXCEPT !.steps = invoked,
                                     !.status = "Exception"],
                       TRUE)
        /\ UNCHANGED << audio_storage, transcript_storage, disk,
                        storage_import, nreq, next_id, nconv, lang_call >>

\* phase 3, vc_model.voice_conversion_to_file(..., file_path=output_path),
\* and synthesize_voice's test that the file is there.  converted: the call
\* returned; written: the file it left (NoFile: none)
synthesize_conversion(r, converted, written) ==
    LET output_path == r.res.path
        invoked == r.res.steps \cup { Phase("conversion", "", output_path) }
    IN  /\ r \in reqs
        /\ r.kind = "voice_conversion"
        /\ r.pc = "conversion"
        /\ IF ~converted
           THEN /\ disk' = disk
                /\ Worker(r, "synth_done",
                          [r.res EXCEPT !.steps = invoked,
                                        !.status = "Exception"],
                          TRUE)
           ELSE IF written = NoFile
           THEN /\ disk' = disk
                /\ Worker(r, "synth_done",
                          [r.res EXCEPT
                             !.steps = invoked,
                             !.status = "FileNotFoundError",
                             !.error = "Synthesized audio file not created"],
                          TRUE)
           ELSE /\ disk' = Put(disk, output_path, written)
                /\ Worker(r, "synth_done",
                          [r.res EXCEPT !.steps = invoked, !.status = "ok"],
                          TRUE)
        /\ UNCHANGED << audio_storage, transcript_storage, storage_import,
                        nreq, next_id, nconv, lang_call >>

\* what the synthesis job leaves alone
synth_frame == << transcript_service, guard_call, singleton, constructed,
                  threads >>

SynthNext ==
    \/ \E filename \in Filenames, contents \in Contents, written \in BOOLEAN :
           upload_audio(filename, contents, written) /\ UNCHANGED others
    \/ \E id \in KnownIds, transcript \in UpdateTexts :
           update_transcript(id, transcript) /\ UNCHANGED others
    \/ \E id \in KnownIds, lang \in SynthLangs, text \in CallerTexts :
           convert_voice_with_language(id, lang, text) /\ UNCHANGED others
    \/ \E r \in reqs, available \in BOOLEAN :
           synthesize_call(r, available) /\ UNCHANGED synth_frame
    \/ \E r \in reqs, extracted \in BOOLEAN :
           synthesize_latents(r, extracted) /\ UNCHANGED synth_frame
    \/ \E r \in reqs, generated \in BOOLEAN :
           synthesize_inference(r, generated) /\ UNCHANGED synth_frame
    \/ \E r \in reqs, converted \in BOOLEAN,
          written \in { NoFile, <<>>, SynthBytes } :
           synthesize_conversion(r, converted, written)
           /\ UNCHANGED synth_frame
    \/ \E r \in reqs : convert_voice_resume(r) /\ UNCHANGED others
    \/ \E id \in DOMAIN audio_storage : backing_file_lost(id) /\ UNCHANGED others

SynthSpec == Init /\ [][SynthNext]_vars

(* ------------------------------- claims ------------------------------- *)
\* a stored field that is present and not the empty string
HasText(session, key) ==
    key \in DOMAIN session /\ session[key] # None /\ session[key] # <<>>

\* s is t without its leading and trailing blanks
IsTrimOf(s, t) ==
    /\ s = <<>> \/ (s[1] # " " /\ s[Len(s)] # " ")
    /\ \E i, j \in 0..Len(t) :
         /\ i + j <= Len(t)
         /\ s = SubSeq(t, i + 1, Len(t) - j)
         /\ \A k \in 1..Len(t) : (k <= i \/ k > Len(t) - j) => t[k] = " "

\* the suspended requests of one handler at one point
At(kind, pc) == { r \in reqs : r.kind = kind /\ r.pc = pc }

\* what the handler of r answers when it resumes now
End(r) ==
    CASE r.kind = "get_transcript" -> get_transcript_end(r)
      [] r.kind = "translate" -> translate_end(r)
      [] r.kind = "voice_conversion" -> convert_voice_end(r)

\* requests whose worker has returned and whose handler resumes next
Resuming == At("get_transcript", "asr_done") \cup At("translate", "translated")
            \cup At("voice_conversion", "synth_done")

C3_CleanupEmptiesStores ==
    \A r \in At("cleanup", "swept") :
        (r.solo /\ storage_import = "shared") =>
            /\ audio_storage = EmptyDict
            /\ \A a \in DOMAIN r.as0 : r.as0[a].file_path \notin DOMAIN disk
            /\ transcript_storage = EmptyDict

\* C4: a get-transcript, update-transcript, translate or voice-conversion
\* request that answers with an error, nothing else having run beside it,
\* leaves the Session Store and the Artifact Store as they were when it
\* started.
C4_ErrorsLeaveStores ==
    /\ \A id \in KnownIds :
         /\ get_transcript_begin(id).status \notin {0, 200}
              => get_transcript_begin(id).ts = transcript_storage
         /\ \A t \in UpdateTexts :
              update_transcript_run(id, t).status # 200
                => update_transcript_run(id, t).ts = transcript_storage
         /\ \A lang \in TargetLangs :
              /\ translate_begin(id, lang).status \notin {0, 200}
                   => translate_begin(id, lang).ts = transcript_storage
              /\ \A t \in CallerTexts :
                   convert_voice_begin(id, lang, t).status \notin {0, 200}
                     => convert_voice_begin(id, lang, t).ts = transcript_storage
    /\ \A r \in Resuming :
         (r.solo /\ End(r).status # 200)
           => (End(r).ts = r.ts0 /\ audio_storage = r.as0)

\* C4 witness: a translation that ran alone on a stored Session has failed
\* and its handler is about to answer.
C4_Witness ==
    \E r \in At("translate", "translated") :
        r.solo /\ r.res.status # "ok" /\ r.id \in DOMAIN r.ts0
        /\ End(r).status = 500

\* the detected code an update-transcript rejection must carry for a text
GuardCode(t) == Upper(is_vietnamese_transcript(t)[2])

\* C5 as stated, read for ids that have an Artifact: an update-transcript
\* whose text the Language Guard rejects (texts under 10 trimmed characters
\* included) answers 400 with the detected code and changes no Session.
C5_AsClaimed ==
    \A id \in DOMAIN audio_storage, t \in UpdateTexts :
        ~is_vietnamese_transcript(t)[1] =>
            /\ update_transcript_run(id, t).status = 400
            /\ update_transcript_run(id, t).det = GuardCode(t)
            /\ update_transcript_run(id, t).ts = transcript_storage

\* C5 amended: an update-transcript whose text the Language Guard rejects
\* never changes the Session Store; for an id with an Artifact it answers
\* 400, with the detected code when the trimmed text is not empty and with
\* "Transcript cannot be empty" (no code) when it is; for an id without an
\* Artifact it answers 404.
C5_RejectedUpdate ==
    \A id \in KnownIds, t \in UpdateTexts :
        ~is_vietnamese_transcript(t)[1] =>
            LET o == update_transcript_run(id, t)
            IN  /\ o.ts = transcript_storage
                /\ IF id \notin DOMAIN audio_storage
                   THEN o.status = 404
                   ELSE /\ o.status = 400
                        /\ IF \A k \in 1..Len(t) : t[k] = " "
                           THEN o.detail = "Transcript cannot be empty"
                                /\ o.det = ""
                           ELSE o.det = GuardCode(t)

\* C5 witness: an English text is about to be refused for an id whose
\* Session holds a corrected transcript.
C5_Witness ==
    \E id \in DOMAIN audio_storage \cap DOMAIN transcript_storage :
        /\ HasText(transcript_storage[id], "corrected_transcript")
        /\ update_transcript_run(id, Rep("e", MinLen)).status = 400
        /\ update_transcript_run(id, Rep("e", MinLen)).det = "EN"

\* C6: a successful update-transcript for an id with an Artifact stores the
\* caller's text without its leading and trailing blanks as
\* corrected_transcript, sets status to "updated", and leaves raw_transcript,
\* translated_transcript and voice_conversions of that Session, every other
\* Session, and the Artifact Store as they were.
C6_UpdateWritesTwoFields ==
    [][ \A id \in KnownIds, t \in UpdateTexts :
          ( /\ id \in DOMAIN audio_storage
            /\ update_transcript_run(id, t).status = 200
            /\ update_transcript(id, t) ) =>
              LET old == transcript_storage
                  new == transcript_storage'
              IN  /\ audio_storage' = audio_storage
                  /\ DOMAIN new = DOMAIN old \cup {id}
                  /\ \A other \in DOMAIN old \ {id} : new[other] = old[other]
                  /\ IsTrimOf(new[id]["corrected_transcript"], t)
                  /\ new[id]["status"] = "updated"
                  /\ \A key \in { "raw_transcript", "translated_transcript",
                                  "voice_conversions" } :
                       IF id \in DOMAIN old /\ key \in DOMAIN old[id]
                       THEN key \in DOMAIN new[id] /\ new[id][key] = old[id][key]
                       ELSE key \notin DOMAIN new[id]
      ]_vars

\* C6 witness: a Session that was transcribed and translated has then been
\* updated with a padded Vietnamese text; its Artifact is stored.
C6_Witness ==
    \E id \in DOMAIN audio_storage \cap DOMAIN transcript_storage :
        /\ HasText(transcript_storage[id], "raw_transcript")
        /\ HasText(transcript_storage[id], "translated_transcript")
        /\ transcript_storage[id]["status"] = "updated"
        /\ transcript_storage[id]["corrected_transcript"] = Rep("v", MinLen)

\* the stored transcript a translation is owed: corrected, else raw
OwedTranscript(session) ==
    IF HasText(session, "corrected_transcript")
    THEN session["corrected_transcript"]
    ELSE IF HasText(session, "raw_transcript")
    THEN session["raw_transcript"]
    ELSE <<>>

\* C7: translate-by-id is refused with 404 when the id has no Session and
\* with 400 when its Session has neither a corrected nor a raw transcript,
\* in both cases before any translation starts; a translation in flight
\* carries the corrected transcript found at the start, or the raw one when
\* corrected was empty; and a 200 answer returns the capability's
\* translation of that text and stores it as translated_transcript.
C7_TranslateNeedsTranscript ==
    /\ \A id \in KnownIds, lang \in TargetLangs :
         LET o == translate_begin(id, lang)
         IN  /\ o.ts = transcript_storage
             /\ IF id \notin DOMAIN transcript_storage
                THEN o.status = 404
                ELSE IF OwedTranscript(transcript_storage[id]) = <<>>
                THEN o.status = 400
                ELSE /\ o.status = 0
                     /\ o.src = OwedTranscript(transcript_storage[id])
    /\ \A r \in At("translate", "translate") \cup At("translate", "translated") :
         /\ r.src # None /\ r.src # <<>>
         /\ r.solo => /\ r.id \in DOMAIN r.ts0
                      /\ r.src = OwedTranscript(r.ts0[r.id])
    /\ \A r \in At("translate", "translated") :
         End(r).status = 200 =>
             /\ r.called
             /\ r.lang \in DOMAIN supported_languages
             /\ End(r).body.text = Translator(r.src, supported_languages[r.lang])
             /\ End(r).ts[r.id]["translated_transcript"] = End(r).body.text

\* C7 witness: a translation that ran alone has succeeded on a Session whose
\* corrected transcript is empty and whose raw transcript is not.
C7_Witness ==
    \E r \in At("translate", "translated") :
        /\ r.solo /\ r.called /\ End(r).status = 200
        /\ ~HasText(r.ts0[r.id], "corrected_transcript")
        /\ HasText(r.ts0[r.id], "raw_transcript")
        /\ r.src = r.ts0[r.id]["raw_transcript"]

\* C8: a translate request whose target language is none of en, ja, fr, and
\* which the translation service has refused for that reason, is answered
\* with a client (4xx) error, the translation capability is not invoked, and
\* the Session Store is left as it is.
C8_UnsupportedLanguageIsClientError ==
    \A r \in At("translate", "translated") :
        (r.lang \notin DOMAIN supported_languages
         /\ r.res.status = "ValueError") =>
            /\ ~r.called
            /\ End(r).ts = transcript_storage
            /\ End(r).status \in 400..499

\* the text a voice conversion is owed: the caller's, else the stored
\* translation, else the corrected transcript, else the raw one
OwedText(text, session) ==
    IF text # None /\ text # <<>> THEN text
    ELSE IF HasText(session, "translated_transcript")
    THEN session["translated_transcript"]
    ELSE IF HasText(session, "corrected_transcript")
    THEN session["corrected_transcript"]
    ELSE IF HasText(session, "raw_transcript")
    THEN session["raw_transcript"]
    ELSE <<>>

\* C9: for an id with a Session and an Artifact, voice-convert-by-id takes
\* the caller's text if it is not empty, else the stored translation, else
\* the corrected transcript, else the raw one; with none of the four it
\* answers 400 before any synthesis starts; and the synthesis capability is
\* handed exactly the text taken, which the 200 answer reports.
C9_TextPriority ==
    /\ \A id \in DOMAIN transcript_storage \cap DOMAIN audio_storage,
          lang \in TargetLangs, text \in CallerTexts :
         LET o == convert_voice_begin(id, lang, text)
             owed == OwedText(text, transcript_storage[id])
         IN  IF owed = <<>>
             THEN o.status = 400
             ELSE /\ o.status \in {0, 404}
                  /\ o.status = 0 => o.src = owed
    /\ \A r \in At("voice_conversion", "synth")
                \cup At("voice_conversion", "synth_done") :
         r.src # None /\ r.src # <<>>
    /\ \A r \in At("voice_conversion", "synth_done") :
         /\ r.called => r.res.raw = r.src
         /\ End(r).status = 200 => (r.called /\ End(r).body.text = r.src)

\* C9 witness: a voice conversion that ran alone, with no text of the
\* caller's, has synthesized the stored translation of a Session that also
\* holds a corrected and a raw transcript.
C9_Witness ==
    \E r \in At("voice_conversion", "synth_done") :
        /\ r.solo /\ r.called /\ End(r).status = 200
        /\ HasText(r.ts0[r.id], "translated_transcript")
        /\ HasText(r.ts0[r.id], "corrected_transcript")
        /\ HasText(r.ts0[r.id], "raw_transcript")
        /\ r.src = r.ts0[r.id]["translated_transcript"]
        /\ r.res.raw = r.src

\* the id has no Artifact entry, or its backing file is gone
ArtifactMissing(id) ==
    \/ id \notin DOMAIN audio_storage
    \/ audio_storage[id].file_path \notin DOMAIN disk

\* C10 as stated: Artifact lookup for an id that has no entry or whose file
\* is gone raises not-found, and a voice conversion for such an id answers
\* 404 and leaves the Session Store as it is.
C10_AsClaimed ==
    \A id \in KnownIds :
        ArtifactMissing(id) =>
            /\ ~get_audio_file(id).ok
            /\ get_audio_file(id).error = "FileNotFoundError"
            /\ \A lang \in TargetLangs, text \in CallerTexts :
                 /\ convert_voice_begin(id, lang, text).status = 404
                 /\ convert_voice_begin(id, lang, text).ts = transcript_storage

\* C10 amended: Artifact lookup for an id that has no entry or whose file is
\* gone raises not-found; a voice conversion for such an id starts no
\* synthesis and leaves the Session Store as it is, answering 400 when the id
\* has a Session and an Artifact entry but no text to synthesize, and 404 in
\* every other case.
C10_MissingArtifact ==
    \A id \in KnownIds :
        ArtifactMissing(id) =>
            /\ ~get_audio_file(id).ok
            /\ get_audio_file(id).error = "FileNotFoundError"
            /\ \A lang \in TargetLangs, text \in CallerTexts :
                 LET o == convert_voice_begin(id, lang, text)
                     no_text == /\ id \in DOMAIN transcript_storage
                                /\ id \in DOMAIN audio_storage
                                /\ OwedText(text, transcript_storage[id]) = <<>>
                 IN  /\ o.ts = transcript_storage
                     /\ o.status = IF no_text THEN 400 ELSE 404

\* C10 witness: an Artifact entry whose file is gone, for a Session that
\* holds a transcript; the conversion is about to be refused with 404.
C10_Witness ==
    \E id \in DOMAIN audio_storage \cap DOMAIN transcript_storage :
        /\ audio_storage[id].file_path \notin DOMAIN disk
        /\ HasText(transcript_storage[id], "raw_transcript")
        /\ convert_voice_begin(id, "fr", None).status = 404
        /\ convert_voice_begin(id, "fr", None).detail
             = "Audio file not found on disk"

\* C11: after upload, get-transcript and a translation to "fr", a
\* voice conversion to "fr" that carries no text of the caller's takes the
\* stored translation; when it ran alone and every capability succeeded it
\* answers 200 with that translation as the synthesized text and a URL under
\* "/static", and voice_conversions["fr"] then holds that text and the
\* returned path, nothing else of the Session Store having changed.
C11_EndToEnd ==
    /\ \A id \in DOMAIN transcript_storage \cap DOMAIN audio_storage :
         ( HasText(transcript_storage[id], "translated_transcript")
           /\ ~ArtifactMissing(id) ) =>
             /\ convert_voice_begin(id, "fr", None).status = 0
             /\ convert_voice_begin(id, "fr", None).src
                  = transcript_storage[id]["translated_transcript"]
    /\ \A r \in At("voice_conversion", "synth_done") :
         ( /\ r.solo /\ r.lang = "fr" /\ r.res.status = "ok"
           /\ HasText(r.ts0[r.id], "translated_transcript")
           /\ r.src = r.ts0[r.id]["translated_transcript"] ) =>
             LET o == End(r)
                 was == r.ts0[r.id]
                 translation == was["translated_transcript"]
             IN  /\ o.status = 200
                 /\ o.body.text = translation
                 /\ Head(o.body.url) = "/static"
                 /\ Tail(o.body.url) = Tail(o.body.path)
                 /\ DOMAIN o.ts = DOMAIN r.ts0
                 /\ \A other \in DOMAIN r.ts0 \ {r.id} :
                      o.ts[other] = r.ts0[other]
                 /\ DOMAIN o.ts[r.id] = DOMAIN was \cup {"voice_conversions"}
                 /\ \A key \in DOMAIN was \ {"voice_conversions"} :
                      o.ts[r.id][key] = was[key]
                 /\ "fr" \in DOMAIN o.ts[r.id]["voice_conversions"]
                 /\ o.ts[r.id]["voice_conversions"]["fr"].text = translation
                 /\ o.ts[r.id]["voice_conversions"]["fr"].audio_path
                      = o.body.path
                 /\ o.body.path \in DOMAIN disk

\* C11 witness: the sequence itself: a Session transcribed ("completed")
\* and translated to French, and a voice conversion to "fr" that ran alone
\* on it, synthesized the translation and is about to answer 200.
C11_Witness ==
    \E r \in At("voice_conversion", "synth_done") :
        /\ r.solo /\ r.lang = "fr" /\ r.called /\ End(r).status = 200
        /\ r.ts0[r.id]["status"] = "completed"
        /\ HasText(r.ts0[r.id], "raw_transcript")
        /\ HasText(r.ts0[r.id], "translated_transcript")
        /\ r.ts0[r.id]["translated_transcript"]
             = Translator(OwedTranscript(r.ts0[r.id]), "fra_Latn")
        /\ r.src = r.ts0[r.id]["translated_transcript"]

\* the extensions an upload may end in
AudioExtensions ==
    { <<".", "w", "a", "v">>, <<".", "m", "p", "3">>, <<".", "m", "4", "a">>,
      <<".", "f", "l", "a", "c">>, <<".", "o", "g", "g">>,
      <<".", "a", "a", "c">>, <<".", "w", "e", "b", "m">> }

\* the name ends in ext, letter case apart
EndsInExtension(name, ext) ==
    /\ Len(name) >= Len(ext)
    /\ \A k \in 1..Len(ext) :
         LET c == name[Len(name) - Len(ext) + k]
         IN  c = ext[k] \/ LowerChar(c) = ext[k]

\* C12: an upload whose file name ends in none of .wav, .mp3, .m4a, .flac,
\* .ogg, .aac, .webm (letter case apart) answers 415, returns no id, writes
\* no file and leaves the Artifact Store as it is, whatever its body.
C12_BadExtensionRefused ==
    \A filename \in IntakeNames, contents \in Contents, written \in BOOLEAN :
        (\A ext \in AudioExtensions : ~EndsInExtension(filename, ext)) =>
            LET o == upload_audio_run(filename, contents, written)
            IN  /\ o.status = 415
                /\ o.id = 0
                /\ o.disk = disk
                /\ o.as = audio_storage

\* C12 witness: with two Artifacts stored, one of them uploaded as
\* "b.MP3", an upload named "a.wav.txt" is about to be refused with 415.
C12_Witness ==
    /\ Cardinality(DOMAIN audio_storage) = 2
    /\ \E a \in DOMAIN audio_storage :
         audio_storage[a].filename = <<"b", ".", "M", "P", "3">>
    /\ upload_audio_run(<<"a", ".", "w", "a", "v", ".", "t", "x", "t">>,
                        <<1>>, TRUE).status = 415

\* C13: each service is constructed at most once in the process, and all
\* threads that have called its accessor hold the same instance.
C13_ConstructedOnce ==
    /\ \A service \in Services : constructed[service] <= 1
    /\ \A t, u \in Threads :
         ( threads[t].pc = "done" /\ threads[u].pc = "done"
           /\ threads[t].service = threads[u].service )
           => threads[t].got = threads[u].got

\* the awaits behind which a model call runs
InferencePcs == { "asr", "translate", "synth" }

\* the event loop can take a new request
CanDispatch ==
    ENABLED ( \E filename \in Filenames, contents \in Contents,
                 written \in BOOLEAN :
                   upload_audio(filename, contents, written) )

\* C14: a request's ASR, correction, translation, speech-generation and
\* voice-conversion calls run on an executor thread: a handler starts with
\* no result and no call made, and a result appears only in a step of the
\* thread of a handler suspended at its await, a step in which no handler
\* runs (no store is written, no request is taken, no other frame moves);
\* and while a call is in progress the event loop can take other requests.
C14_InferenceOnWorkers ==
    /\ [] ( ( nreq < MaxRequests /\ \E r \in reqs : r.pc \in InferencePcs )
            => CanDispatch )
    /\ [][ \A r \in reqs' :
             LET before == { q \in reqs : q.rid = r.rid }
             IN  IF before = {}
                 THEN ~r.called /\ r.res = NoRes
                      /\ r.pc \in InferencePcs \cup { "sweep" }
                 ELSE \A q \in before :
                        ( q.called # r.called \/ q.res # r.res ) =>
                          /\ q.pc \in InferencePcs \cup { "sweep" }
                          /\ ~q.called /\ q.res = NoRes
                          /\ UNCHANGED << audio_storage, transcript_storage,
                                          nreq, next_id >>
                          /\ reqs' \ {r} = reqs \ {q} ]_vars

\* while the ASR call of one request is in progress, a request taken after
\* it has had its own model call made
C14_Witness ==
    \E r, q \in reqs :
       /\ r.pc = "asr"
       /\ q.rid > r.rid
       /\ q.called
       /\ q.kind \in { "translate", "voice_conversion" }

\* the shutdown in progress, or over
Shutdowns == { r \in reqs : r.kind = "shutdown" }

\* C15: a shutdown that has begun ends, and ends without raising: with
\* the cleanup completed, with the timeout logged, or with the exception
\* logged.  A file whose unlink fails stops nothing: step 1 still unlinks
\* the other backing files and clears the store, the sweep still unlinks
\* the other files, the sweeps are still scheduled after step 1, and a
\* shutdown reports completion only after its sweep ran.
C15_ShutdownEnds ==
    /\ ( Shutdowns # {} ) ~> ( \E r \in Shutdowns : r.pc = "done" )
    /\ [] ( \A r \in Shutdowns :
              /\ r.pc = "done" =>
                   r.res.status \in { "completed", "timeout_logged",
                                      "error_logged" }
              /\ r.pc # "done" => r.res.status = "pending"
              /\ r.res.status = "completed" => r.called )
    /\ [] ( \A stuck \in SUBSET StaticFiles :
              DOMAIN cleanup_files(stuck) \cap StaticFiles = stuck )
    /\ [] ( storage_import = "shared" =>
              \A stuck \in SUBSET { audio_storage[a].file_path :
                                    a \in DOMAIN audio_storage } :
                 LET o == clean_audio_storage(stuck)
                 IN  /\ o.as = EmptyDict
                     /\ \A a \in DOMAIN audio_storage :
                          audio_storage[a].file_path \in DOMAIN o.disk
                            => audio_storage[a].file_path \in stuck )
    /\ [][ ( Shutdowns = {} /\ Shutdowns' # {} ) =>
             \A r \in Shutdowns' : r.pc = "sweep" ]_vars

\* a shutdown that completed although a converted file and the backing
\* file of an upload could not be unlinked
C15_Witness ==
    \E r \in Shutdowns :
       /\ r.pc = "done"
       /\ r.res.status = "completed"
       /\ StaticFiles # {}
       /\ audio_storage = EmptyDict
       /\ \E f \in DOMAIN disk : Head(f) # "static"

\* the codes is_vietnamese_transcript accepts as Vietnamese
AcceptedCodes == { "VI", "VIE" }

\* C16: a call of the Language Guard returns a pair, never raises, and the
\* pair is (FALSE, "text_too_short"), with the detector not called, when
\* the stripped text has fewer than 10 characters, whatever the text;
\* else (FALSE, "detection_failed") when the detector throws; else
\* (TRUE, code) when the detected code is an accepted one and (FALSE, code)
\* when it is not.
C16_GuardAnswers ==
    guard_call.done =>
      LET text == guard_call.text
          result == guard_call.result
      IN  IF Len(Strip(text)) < 10
          THEN result = <<FALSE, "text_too_short">> /\ guard_call.asked = <<>>
          ELSE /\ guard_call.asked = << Strip(text) >>
               /\ LET code == Detect(Strip(text))
                  IN  IF code = "raise"
                      THEN result = <<FALSE, "detection_failed">>
                      ELSE result = << code \in AcceptedCodes, code >>

\* the guard has answered for a text of 10 characters or more whose
\* stripped length is 9
C16_Witness ==
    /\ guard_call.done
    /\ Len(guard_call.text) >= 10
    /\ Len(Strip(guard_call.text)) = 9
    /\ guard_call.result = <<FALSE, "text_too_short">>

\* C17: a voice-conversion request answers 200, or stores a
\* voice_conversions record, only if the output file of its synthesis is on
\* the disk and is not empty at that moment.
C17_SuccessNeedsOutput ==
    \A r \in At("voice_conversion", "synth_done") :
       LET o == End(r)
       IN  ( o.status = 200 \/ o.ts # transcript_storage ) =>
             /\ r.res.path \in DOMAIN disk
             /\ disk[r.res.path] # <<>>

\* the answer to r had its synthesis ended otherwise
AnswerHad(r, status, error) ==
    LET o == End([r EXCEPT !.res.status = status, !.res.error = error])
    IN  << o.status, o.detail >>

\* C18: a voice conversion whose output file is missing after the model
\* call returned (synthesize_voice finds no file, or the handler finds none
\* when it resumes) is answered differently from one whose reference audio
\* is missing and from one whose model call raised.
C18_MissingOutputIsDistinct ==
    \A r \in At("voice_conversion", "synth_done") :
       ( \/ r.res.error = "Synthesized audio file not created"
         \/ ( r.res.status = "ok" /\ r.res.path \notin DOMAIN disk ) ) =>
           /\ << End(r).status, End(r).detail >>
                # AnswerHad(r, "FileNotFoundError",
                            "Reference audio file not found")
           /\ << End(r).status, End(r).detail >> # AnswerHad(r, "Exception", "")

\* C19: for an audio file that a get-transcript request hands to the
\* Transcription Stage: when ASR returns a text and the correction model
\* is not loaded, or its call raises, the stage returns status "success"
\* with corrected_transcript equal to raw_transcript; when ASR returns the
\* empty text, it returns "success" with an empty corrected_transcript and
\* the correction model is not called.
C19_CorrectionFallback ==
    /\ \A r \in At("get_transcript", "asr") :
         /\ \A res \in process_audio(r.path) :
              res.status = "success" =>
                /\ ~transcript_service.correction_loaded =>
                     ( res.corrected = res.raw /\ "correct" \notin res.steps )
                /\ res.raw = <<>> =>
                     ( res.corrected = <<>> /\ "correct" \notin res.steps )
         /\ \A tr \in transcribe(r.path) :
              tr.ok =>
                LET c == correct_text(tr.text, TRUE)
                IN  /\ c.text = tr.text
                    /\ \E res \in process_audio(r.path) :
                         /\ res.status = "success"
                         /\ res.raw = tr.text
                         /\ res.corrected = tr.text
                         /\ res.steps = tr.steps \cup
                              (IF c.called THEN {"correct"} ELSE {})
    /\ \A r \in At("get_transcript", "asr_done") :
         ( r.res.status = "success"
           /\ ( ~transcript_service.correction_loaded \/ r.res.raw = <<>> ) )
           => ( r.res.corrected = r.res.raw /\ "correct" \notin r.res.steps )

\* the stage has returned "success" with the raw text as the corrected
\* one although the correction model was called: the call raised
C19_Witness ==
    \E r \in At("get_transcript", "asr_done") :
       /\ r.res.status = "success"
       /\ r.res.raw # <<>>
       /\ r.res.corrected = r.res.raw
       /\ "correct" \in r.res.steps
       /\ transcript_service.correction_loaded

\* C20: in a process whose TranscriptService did not load the ASR model,
\* every call of the Transcription Stage returns an error without
\* attempting a format conversion, ASR or correction, and the get-transcript
\* request that made the call answers with an error and creates no Session
\* (with uploads and get-transcript requests alone, the Session Store stays
\* empty).
C20_AsrUnavailableFailsFast ==
    ~transcript_service.asr_loaded =>
      /\ \A r \in At("get_transcript", "asr") :
           \A res \in process_audio(r.path) :
              res.status = "error" /\ res.steps = {}
      /\ \A r \in At("get_transcript", "asr_done") :
           /\ r.res.status = "error"
           /\ r.res.steps = {}
           /\ ~r.called
           /\ End(r).status = 500
           /\ End(r).ts = transcript_storage
      /\ transcript_storage = EmptyDict

\* without the ASR model, the transcription of an uploaded MP3 file (one
\* that would be converted first) has returned and is about to be answered
C20_Witness ==
    /\ ~transcript_service.asr_loaded
    /\ \E r \in At("get_transcript", "asr_done") :
          /\ r.id \in DOMAIN audio_storage
          /\ r.path \in DOMAIN disk
          /\ disk[r.path] # <<>>
          /\ Lower(r.path[3]) = <<".", "m", "p", "3">>
          /\ End(r).status = 500

\* C21: a Session that a get-transcript request stored (status
\* "completed": no update-transcript has touched it since) is answered from
\* the cache by any later get-transcript: 200, with the stored
\* raw_transcript and corrected_transcript, and no Transcription Stage call.
C21_CachedTranscriptServed ==
    \A id \in DOMAIN transcript_storage :
       ( "status" \in DOMAIN transcript_storage[id]
         /\ transcript_storage[id]["status"] = "completed" ) =>
           LET o == get_transcript_begin(id)
           IN  /\ o.status = 200
               /\ o.body.raw = transcript_storage[id]["raw_transcript"]
               /\ o.body.corrected
                    = transcript_storage[id]["corrected_transcript"]

\* a table key equals the code, is a prefix of it, or has it as a prefix
TableMatches(language_lower) ==
    \E i \in 1..Len(SUPPORTED_LANGUAGES) :
       \/ StartsWith(language_lower, SUPPORTED_LANGUAGES[i].key)
       \/ StartsWith(SUPPORTED_LANGUAGES[i].key, language_lower)

\* C22: a call of the language-code normalization, for any string, the
\* empty one and an absent one included, returns en, ja or fr (it does not
\* raise), and returns en when the argument is absent or empty or no table
\* entry matches it.
C22_NormalizationTotal ==
    lang_call.done =>
      /\ lang_call.result \in { "en", "ja", "fr" }
      /\ ( lang_call.language = None \/ lang_call.language = <<>> )
           => lang_call.result = "en"
      /\ ( lang_call.language # None
           /\ ~TableMatches(Strip(Lower(lang_call.language))) )
           => lang_call.result = "en"

\* the normalization has answered en for a code that matches no entry
C22_Witness ==
    /\ lang_call.done
    /\ lang_call.language = <<"d", "e">>
    /\ lang_call.result = "en"

\* C23: in the state an upload leaves when it succeeds and returns an id,
\* the lookup of that id succeeds, the file at the path it returns holds
\* exactly the uploaded bytes, and so does the entry's in-memory content.
C23_UploadRoundTrip ==
    [][ next_id' # next_id =>
          \A id \in { i \in 1..MaxRequests : i = next_id },
             filename \in { n \in IntakeNames : check_audio_format(n) },
             contents \in IntakeContents, written \in BOOLEAN :
             LET o == upload_audio_run(filename, contents, written)
             IN  ( o.status = 200 /\ o.id = id
                   /\ audio_storage' = o.as /\ disk' = o.disk )
                   => /\ get_audio_file(id)'.ok
                      /\ disk'[get_audio_file(id)'.path] = contents
                      /\ audio_storage'[id].content = contents
                      /\ audio_storage'[id].id = id ]_vars

\* an upload of two bytes has succeeded and its Artifact can be looked up
C23_Witness ==
    \E id \in DOMAIN audio_storage :
       /\ audio_storage[id].content = <<2, 1>>
       /\ get_audio_file(id).ok
       /\ disk[get_audio_file(id).path] = <<2, 1>>

\* C24: when a get-transcript request completes and a Session already
\* exists for its id, the Session is left as it is: raw_transcript, a
\* corrected_transcript that update-transcript accepted, translated_transcript
\* and voice_conversions all survive.
C24_CompletionKeepsSession ==
    [][ \A r \in At("get_transcript", "asr_done") :
          ( /\ \A q \in reqs' : q.rid # r.rid
            /\ r.id \in DOMAIN transcript_storage )
            => /\ r.id \in DOMAIN transcript_storage'
               /\ transcript_storage'[r.id] = transcript_storage[r.id] ]_vars

\* the keys of a Session other than translated_transcript
OtherKeys(session) == DOMAIN session \ { "translated_transcript" }

\* C25: when a translate request completes, alone or interleaved with
\* others for the same id, it answers with its own translation (of the
\* text it read, into its own target language), and the Session's one
\* translated_transcript slot then holds that translation, whatever was
\* there; no step of a translate request changes anything else in the
\* Session Store, and a failed one changes nothing.
C25_LastTranslationWins ==
    [][ /\ \A r \in At("translate", "translated") :
             ( \A q \in reqs' : q.rid # r.rid ) =>
               LET o == End(r)
                   old == transcript_storage
                   new == transcript_storage'
               IN  IF o.status = 200
                   THEN /\ o.body.text
                             = Translator(r.src, supported_languages[r.lang])
                        /\ DOMAIN new = DOMAIN old
                        /\ \A id \in DOMAIN old \ {r.id} : new[id] = old[id]
                        /\ new[r.id]["translated_transcript"] = o.body.text
                        /\ OtherKeys(new[r.id]) = OtherKeys(old[r.id])
                        /\ \A key \in OtherKeys(old[r.id]) :
                             new[r.id][key] = old[r.id][key]
                   ELSE new = old
        /\ ( \E r \in reqs' : r.kind = "translate"
                              /\ r.pc \in { "translate", "translated" }
                              /\ r \notin Disturb(reqs) /\ r \notin reqs )
             => transcript_storage' = transcript_storage ]_vars

\* a translate request is about to complete with a translation other than
\* the one the Session holds from an earlier translate request
C25_Witness ==
    \E r \in At("translate", "translated") :
       /\ End(r).status = 200
       /\ HasText(transcript_storage[r.id], "translated_transcript")
       /\ transcript_storage[r.id]["translated_transcript"] # End(r).body.text

\* the characters of a target_language value
LangChars(lang) ==
    CASE lang = "fr" -> <<"f", "r">>
      [] lang = "ja" -> <<"j", "a">>
      [] lang = "en" -> <<"e", "n">>
      [] lang = "de" -> <<"d", "e">>

\* the language VoiceSynthesisService.synthesize speaks for a requested code
UsedLanguage(lang) == normalize_language_code(LangChars(lang))

\* C26: the keys of a Session's voice_conversions are supported language
\* codes, and there is one record per language that the synthesis stage
\* used: no two keys stand for the same normalized language.
C26_OneRecordPerLanguage ==
    \A id \in DOMAIN transcript_storage :
       "voice_conversions" \in DOMAIN transcript_storage[id] =>
          LET records == transcript_storage[id]["voice_conversions"]
          IN  \A lang \in DOMAIN records :
                /\ lang \in { "en", "ja", "fr" }
                /\ \A other \in DOMAIN records :
                     UsedLanguage(other) = UsedLanguage(lang) => other = lang

\* the text is a translation into the target language lang
TranslatedInto(text, lang) ==
    /\ lang \in DOMAIN supported_languages
    /\ \E source \in UpdateTexts \cup AsrTexts :
         text = Translator(Strip(source), supported_languages[lang])

\* C27: when a voice-conversion request for a target language, without a
\* text of its own, synthesizes the Session's translated_transcript, that
\* text is a translation into that language.
C27_SynthesizedTextMatchesLanguage ==
    \A id \in DOMAIN transcript_storage, lang \in TargetLangs :
       LET o == convert_voice_begin(id, lang, None)
       IN  ( o.status = 0
             /\ HasText(transcript_storage[id], "translated_transcript")
             /\ o.src = transcript_storage[id]["translated_transcript"] )
             => TranslatedInto(o.src, lang)

\* C28: every non-empty corrected_transcript in the Session Store is a text
\* that the Language Guard accepts, and every text handed to the translator
\* by a translate request is one.
C28_StoredTextPassedGuard ==
    /\ \A id \in DOMAIN transcript_storage :
         HasText(transcript_storage[id], "corrected_transcript") =>
           is_vietnamese_transcript(
               transcript_storage[id]["corrected_transcript"])[1]
    /\ \A r \in At("translate", "translate") \cup At("translate", "translated") :
         is_vietnamese_transcript(r.src)[1]

\* C29: a Session whose translated_transcript is set has a non-empty
\* corrected_transcript or a non-empty raw_transcript.
C29_TranslationHasSource ==
    \A id \in DOMAIN transcript_storage :
       "translated_transcript" \in DOMAIN transcript_storage[id] =>
          \/ HasText(transcript_storage[id], "corrected_transcript")
          \/ HasText(transcript_storage[id], "raw_transcript")

\* C30: every Session holds a raw_transcript, Sessions being created only
\* by a get-transcript request that ran the Transcription Stage and never
\* by update-transcript, translate or voice-convert.
C30_SessionHasRawTranscript ==
    \A id \in DOMAIN transcript_storage :
       "raw_transcript" \in DOMAIN transcript_storage[id]

\* the temporary WAV files on disk
TempFiles == { f \in DOMAIN disk : Head(f) = "tmp" }

\* C31: the temporary WAV file made for a non-WAV input exists only while
\* its transcribe call is between conversion and load; once the call has
\* returned or raised, on any path, the file is gone.
C31_TempWavScoped ==
    \A f \in TempFiles :
       \E r \in reqs :
          /\ r.kind = "get_transcript"
          /\ r.pc \in { "validate", "load" }
          /\ r.res.path = f

\* the phases a synthesis job has invoked
Phases(r) == { p.phase : p \in r.res.steps }

\* the orders in which synthesize may have got through its phases
PhaseOrder ==
    { {}, {"latents"}, {"latents", "inference"},
      {"latents", "inference", "conversion"} }

\* the output files of the synthesis stage
OutputFiles(d) == { f \in DOMAIN d : Head(f) = "static" }

\* C32: a synthesis job invokes conditioning extraction, then speech
\* generation with the normalized language code, then voice conversion to
\* its output path, one phase per step and in that order; a job that finds
\* its reference audio missing ends failed without having invoked a phase
\* or written a file; a job's step leaves the reference audio as it was,
\* and an output file appears only in a voice conversion phase, at that
\* job's output path.
C32_SynthesisOrdered ==
    [][ /\ \A r \in { q \in reqs : q.kind = "voice_conversion" } :
           \A r2 \in { q \in reqs' : q.rid = r.rid /\ q.pc # r.pc } :
              /\ Phases(r2) \in PhaseOrder
              /\ Cardinality(Phases(r2) \ Phases(r)) <= 1
              /\ \A p \in r2.res.steps :
                    /\ p.phase = "latents" => p.path = r.path
                    /\ p.phase = "inference" =>
                          p.language = normalize_language_code(r.lang)
                    /\ p.phase = "conversion" =>
                          p.path = r2.res.path /\ p.path # r.path
              /\ (r.pc = "synth" /\ r.path \notin DOMAIN disk) =>
                    /\ r2.pc = "synth_done"
                    /\ r2.res.status # "ok"
                    /\ r2.res.steps = {}
                    /\ disk' = disk
              /\ r.path \in DOMAIN disk =>
                    r.path \in DOMAIN disk' /\ disk'[r.path] = disk[r.path]
        /\ \A f \in OutputFiles(disk') \ OutputFiles(disk) :
              \E r \in reqs : \E r2 \in reqs' :
                 /\ r2.rid = r.rid
                 /\ r.pc = "conversion"
                 /\ Phases(r2) \ Phases(r) = {"conversion"}
                 /\ r2.res.path = f
      ]_vars

\* C32 witness: one job went through the three phases, was given the
\* table's code for a language written in capitals and left its output
\* file, while another found its reference audio missing.
C32_Witness ==
    \E r \in reqs : \E q \in reqs :
       /\ r.pc = "synth_done"
       /\ r.res.status = "ok"
       /\ Phases(r) = {"latents", "inference", "conversion"}
       /\ r.lang = <<"F", "R">>
       /\ Phase("inference", "fr", <<>>) \in r.res.steps
       /\ r.res.path \in DOMAIN disk
       /\ q.pc = "synth_done"
       /\ q.res.status = "FileNotFoundError"
       /\ q.res.steps = {}
       /\ q.path \notin DOMAIN disk

\* the table entries whose spelling is the code
ExactEntries(language_lower) ==
    { i \in 1..Len(SUPPORTED_LANGUAGES) :
        SUPPORTED_LANGUAGES[i].key = language_lower }

\* the table entries whose spelling the code starts with, or starts the
\* spelling
PrefixEntries(language_lower) ==
    { i \in 1..Len(SUPPORTED_LANGUAGES) :
        \/ StartsWith(language_lower, SUPPORTED_LANGUAGES[i].key)
        \/ StartsWith(SUPPORTED_LANGUAGES[i].key, language_lower) }

\* the table entries whose spelling occurs somewhere in the code
ContainedEntries(language_lower) ==
    { i \in 1..Len(SUPPORTED_LANGUAGES) :
        LET key == SUPPORTED_LANGUAGES[i].key
        IN  \E k \in 1..Len(language_lower) :
               /\ k + Len(key) - 1 <= Len(language_lower)
               /\ SubSeq(language_lower, k, k + Len(key) - 1) = key }

\* C33 as stated: a code that is a table spelling gets that entry's code;
\* otherwise a code that starts with a spelling, starts one, or contains
\* one gets the code of such an entry; only a code matching no entry gets
\* the default en.
C33_AsClaimed ==
    ( lang_call.done /\ lang_call.language # None ) =>
      LET language_lower == Strip(Lower(lang_call.language))
          exact == ExactEntries(language_lower)
          matching == PrefixEntries(language_lower)
                      \cup ContainedEntries(language_lower)
      IN  /\ exact # {} =>
                \E i \in exact : lang_call.result = SUPPORTED_LANGUAGES[i].code
          /\ ( exact = {} /\ matching # {} ) =>
                \E i \in matching :
                   lang_call.result = SUPPORTED_LANGUAGES[i].code
          /\ matching = {} => lang_call.result = "en"

\* C33 amended: a code that is a table spelling gets that entry's code;
\* otherwise a code that starts with a spelling, or that a spelling starts
\* with, gets the code of the first such entry in table order; every other
\* code gets the default en, one that contains a spelling only after its
\* first character included.
C33_PrefixMatchOnly ==
    ( lang_call.done /\ lang_call.language # None ) =>
      LET language_lower == Strip(Lower(lang_call.language))
          exact == ExactEntries(language_lower)
          partial == PrefixEntries(language_lower)
          first == CHOOSE i \in partial : \A j \in partial : i <= j
      IN  /\ exact # {} =>
                \E i \in exact : lang_call.result = SUPPORTED_LANGUAGES[i].code
          /\ ( exact = {} /\ partial # {} ) =>
                lang_call.result = SUPPORTED_LANGUAGES[first].code
          /\ partial = {} => lang_call.result = "en"

\* the normalization has answered ja for a partial name of a spelling
C33_Witness ==
    /\ lang_call.done
    /\ lang_call.language = <<"j", "a", "p", "a", "n">>
    /\ ExactEntries(lang_call.language) = {}
    /\ lang_call.result = "ja"

\* C34: an upload of an accepted file name with an empty body answers 400,
\* returns no id, writes no file and leaves the Artifact Store as it is;
\* and every Artifact has a non-empty content, the bytes its backing file
\* holds for as long as the file is there.
C34_EmptyUploadIsClientError ==
    /\ \A filename \in { n \in IntakeNames : check_audio_format(n) },
          written \in BOOLEAN :
          LET o == upload_audio_run(filename, <<>>, written)
          IN  /\ o.status = 400
              /\ o.id = 0
              /\ o.disk = disk
              /\ o.as = audio_storage
    /\ \A id \in DOMAIN audio_storage :
          /\ audio_storage[id].content # <<>>
          /\ audio_storage[id].file_path \in DOMAIN disk =>
                disk[audio_storage[id].file_path] = audio_storage[id].content

\* this step is a successful upload: a new id was handed out, and the
\* Artifact Store gained the entry of that id and nothing else changed in it
IsUpload ==
    /\ next_id' = next_id + 1
    /\ next_id \notin (DOMAIN audio_storage) \cup (DOMAIN transcript_storage)
    /\ DOMAIN audio_storage' = (DOMAIN audio_storage) \cup {next_id}
    /\ audio_storage'[next_id].id = next_id
    /\ \A a \in DOMAIN audio_storage : audio_storage'[a] = audio_storage[a]

\* this step is the start of a cleanup sweep, which only removes entries
IsSweep ==
    /\ \E r \in reqs' : r.kind \in { "cleanup", "shutdown" } /\ r.rid = nreq'
    /\ nreq' = nreq + 1
    /\ DOMAIN audio_storage' \subseteq DOMAIN audio_storage
    /\ \A a \in DOMAIN audio_storage' : audio_storage'[a] = audio_storage[a]

\* this step is no request's: no request started, moved or ended
IsEnvironment == reqs' = reqs /\ nreq' = nreq

\* the backing files of the Artifacts that are on disk
BackingFiles ==
    { audio_storage[a].file_path : a \in DOMAIN audio_storage }
    \cap DOMAIN disk

\* C35: the Artifact Store changes only in a successful upload, which adds
\* one entry under an id that neither store held, and in a cleanup sweep,
\* which removes entries; every successful upload is such a step; and no
\* step of a get-transcript, update-transcript, translate or voice-convert
\* request removes or rewrites the backing file of an Artifact.
C35_ArtifactsImmutable ==
    [][ /\ audio_storage' # audio_storage => IsUpload \/ IsSweep
        /\ next_id' # next_id => IsUpload
        /\ ( \E f \in BackingFiles :
                f \notin DOMAIN disk' \/ disk'[f] # disk[f] )
             => IsSweep \/ IsEnvironment
      ]_vars

\* C35 witness: after an upload, a get-transcript, a translate and a
\* voice-convert request on its id, the Artifact is stored as uploaded
\* and its backing file holds its bytes.
C35_Witness ==
    \E id \in DOMAIN audio_storage :
       /\ id \in DOMAIN transcript_storage
       /\ "raw_transcript" \in DOMAIN transcript_storage[id]
       /\ "translated_transcript" \in DOMAIN transcript_storage[id]
       /\ "voice_conversions" \in DOMAIN transcript_storage[id]
       /\ audio_storage[id].id = id
       /\ audio_storage[id].file_path \in DOMAIN disk
       /\ disk[audio_storage[id].file_path] = audio_storage[id].content

=============================================================================
